---- MODULE Spec2Model ----
(***************************************************************************)
(* Litterbox: sandbox provider (branch + container pairing with            *)
(* compensating rollback) and the SCM snapshot engine.                     *)
(*                                                                         *)
(* Strings of the program are sequences of one-character strings.  An      *)
(* Option<T> is a sequence of length 0 (None) or 1 (Some(v)).              *)
(***************************************************************************)
EXTENDS Integers, Sequences, FiniteSets, TLC

(***************************************************************************)
(* Bounds of the model                                                     *)
(***************************************************************************)
MaxCalls == 3
MaxOverlap == 2
MaxOverlapCalls == 2
MaxSnapCalls == 2
MaxWriters == 2
MaxRetryCalls == 1
MaxCliCalls == 2
MaxTextLen == 4
MaxNameLen == 2
MaxScmCalls == 3
MaxMsgLen == 2
MaxPathLen == 4
MaxPorts == 2
MaxCreateCalls == 2

(***************************************************************************)
(* Domain model: slugification (src/src/domain/mod.rs)                     *)
(***************************************************************************)
MAX_SLUG_LENGTH == 63

to_ascii_lowercase(ch) ==
    CASE ch = "A" -> "a"
      [] ch = "B" -> "b"
      [] OTHER -> ch

is_ascii_alphanumeric(ch) == ch \in {"a", "b", "A", "B", "0", "1"}

\* The loop of slugify from character i on, with the slug and last_was_dash
\* as they are before it.  Character j pushes its lower-case letter or digit,
\* or a dash when the character before it pushed none of its own.
slugify_loop(name, i, slug, last_was_dash) ==
    LET lower(j) == to_ascii_lowercase(name[j])
        is_dash(j) == ~is_ascii_alphanumeric(lower(j))
        dash_before(j) == IF j = i THEN last_was_dash ELSE is_dash(j - 1)
        steps == [k \in 1..(Len(name) - i + 1) |->
                    LET j == i + k - 1 IN
                    [ch |-> IF is_dash(j) THEN "-" ELSE lower(j),
                     pushed |-> ~is_dash(j) \/ ~dash_before(j)]]
        pushed == SelectSeq(steps, LAMBDA step : step.pushed)
    IN  slug \o [k \in 1..Len(pushed) |-> pushed[k].ch]

RECURSIVE trim_start_dash(_)
trim_start_dash(s) ==
    IF Len(s) > 0 /\ s[1] = "-" THEN trim_start_dash(Tail(s)) ELSE s

RECURSIVE trim_end_dash(_)
trim_end_dash(s) ==
    IF Len(s) > 0 /\ s[Len(s)] = "-"
    THEN trim_end_dash(SubSeq(s, 1, Len(s) - 1))
    ELSE s

slugify(name) == trim_end_dash(trim_start_dash(slugify_loop(name, 1, <<>>, FALSE)))

\* Variant: the length of the slug has no upper limit.
validate_slug_any_length(slug) ==
    /\ Len(slug) > 0
    /\ \A i \in 1..Len(slug) : slug[i] \in {"a", "b", "0", "1", "-"}

validate_slug(slug) ==
    /\ Len(slug) > 0
    /\ Len(slug) <= MAX_SLUG_LENGTH
    /\ \A i \in 1..Len(slug) : slug[i] \in {"a", "b", "0", "1", "-"}

(***************************************************************************)
(* Errors (SandboxError and its nested ScmError / ComputeError).           *)
(* Every error is a record of the same shape so that errors compare.       *)
(***************************************************************************)
Error(kind, variant, status, name, exit_code, stderr) ==
    [kind |-> kind, variant |-> variant, status |-> status, name |-> name,
     exit_code |-> exit_code, stderr |-> stderr]

InvalidName(name) == Error("InvalidName", "", 0, name, 0, "")
SandboxExists(slug) == Error("SandboxExists", "", 0, slug, 0, "")
SandboxNotFound(slug) == Error("SandboxNotFound", "", 0, slug, 0, "")
ScmError(variant) == Error("Scm", variant, 0, <<>>, 0, "")
ComputeError(variant, status) == Error("Compute", variant, status, <<>>, 0, "")
SetupCommandFailed(exit_code, stderr) ==
    Error("SetupCommandFailed", "", 0, <<>>, exit_code, stderr)
IoError == Error("Io", "", 0, <<>>, 0, "")
ConfigError == Error("Config", "", 0, <<>>, 0, "")

slugify_name(name) ==
    LET slug == slugify(name) IN
    IF validate_slug(slug)
    THEN [ok |-> TRUE, slug |-> slug, err |-> InvalidName(name)]
    ELSE [ok |-> FALSE, slug |-> slug, err |-> InvalidName(name)]

(***************************************************************************)
(* Names (src/src/sandbox/mod.rs, src/src/scm/mod.rs)                      *)
(***************************************************************************)
container_name_for_slug(repo_prefix, slug) ==
    <<"litterbox-">> \o repo_prefix \o <<"-">> \o slug

branch_name_for_slug(slug) == <<"litterbox/">> \o slug

\* A local branch <b> is the reference refs/heads/<b>.
BranchRef(branch) == <<"refs/heads/">> \o branch

to_ascii_uppercase(ch) ==
    CASE ch = "a" -> "A"
      [] ch = "b" -> "B"
      [] OTHER -> ch

env_var_for_slug(slug) ==
    <<"LITTERBOX_FWD_PORT_">> \o
    [i \in 1..Len(slug) |-> to_ascii_uppercase(IF slug[i] = "-" THEN "_" ELSE slug[i])]

\* Name of the directory that holds the repository, and the configured
\* project.slug override handed to ThreadSafeScm::open_with_prefix.
RepoDirName == <<"A", " ", "b">>
PrefixOverride == <<>>

repo_prefix_from_path(base) ==
    LET slug == slugify(base) IN
    IF Len(slug) = 0 THEN <<"r", "e", "p", "o">> ELSE slug

ThreadSafeScm_repo_prefix ==
    IF Len(PrefixOverride) = 1 THEN PrefixOverride[1]
    ELSE repo_prefix_from_path(RepoDirName)

(***************************************************************************)
(* Port allocator (src/src/sandbox/mod.rs)                                 *)
(***************************************************************************)
DEFAULT_PORT_RANGE_START == 3000
DEFAULT_PORT_RANGE_END == 8000
PORT_ALLOC_MAX_RETRIES == 32
U16 == 65536

Min(a, b) == IF a < b THEN a ELSE b

\* `(range_end - range_start + 1) as u64`: the sum is formed in u16 and
\* widened afterwards; this is its value when the arithmetic wraps.
port_range_size(range_start, range_end) == (range_end - range_start + 1) % U16

\* seed: the clock in ns; busy: the host ports that cannot be bound; probed:
\* the candidates the call tried to bind, in order.
allocate_host_port(range_start, range_end, seed, busy) ==
    IF range_end < range_start
    THEN [ok |-> FALSE, port |-> 0, err |-> ConfigError, probed |-> <<>>]
    ELSE LET range == port_range_size(range_start, range_end)
             max_attempts == Min(PORT_ALLOC_MAX_RETRIES, range)
             candidate(attempt) ==
                 (range_start + (((seed + attempt) % range) % U16)) % U16
             free == {a \in 0..(max_attempts - 1) : candidate(a) \notin busy}
         IN  IF free = {}
             THEN [ok |-> FALSE, port |-> 0, err |-> ConfigError,
                   probed |-> [a \in 1..max_attempts |-> candidate(a - 1)]]
             ELSE LET first == CHOOSE a \in free : \A b \in free : a <= b
                  IN  [ok |-> TRUE, port |-> candidate(first), err |-> ConfigError,
                       probed |-> [a \in 1..(first + 1) |-> candidate(a - 1)]]

\* One pass of the loop of build_forwarded_ports over config.forwarded_ports;
\* seeds[i] is the clock value seen by the i-th allocation.
RECURSIVE build_forwarded_ports_loop(_, _, _, _, _)
build_forwarded_ports_loop(ports, i, seeds, busy, acc) ==
    IF i > Len(ports) THEN acc
    ELSE LET port == ports[i]
             s == slugify_name(port.name)
         IN  IF ~s.ok THEN [acc EXCEPT !.ok = FALSE, !.err = s.err]
             ELSE LET env_key == env_var_for_slug(s.slug)
                      a == allocate_host_port(DEFAULT_PORT_RANGE_START,
                                              DEFAULT_PORT_RANGE_END, seeds[i], busy)
                  IN  IF ~a.ok THEN [acc EXCEPT !.ok = FALSE, !.err = a.err]
                      ELSE build_forwarded_ports_loop(ports, i + 1, seeds, busy,
                             [acc EXCEPT
                                !.env = Append(@, env_key \o <<"=", ToString(a.port)>>),
                                !.port_bindings =
                                    {b \in @ : b.key # <<ToString(port.target), "/tcp">>}
                                    \cup {[key |-> <<ToString(port.target), "/tcp">>,
                                           host_ip |-> "0.0.0.0",
                                           host_port |-> ToString(a.port)]},
                                !.forwarded = Append(@,
                                    [name |-> port.name, target |-> port.target,
                                     host_port |-> a.port, env_var |-> env_key])])

build_forwarded_ports(config, seeds, busy) ==
    build_forwarded_ports_loop(config.forwarded_ports, 1, seeds, busy,
        [ok |-> TRUE, env |-> <<>>, port_bindings |-> {}, forwarded |-> <<>>,
         err |-> ConfigError])

(***************************************************************************)
(* State                                                                   *)
(***************************************************************************)
VARIABLES
    refs,        \* the repository's references: full ref name -> commit id
    head,        \* HEAD: symbolic ([ref |-> <<name>>]) or detached ([oid |-> <<id>>])
    containers,  \* the container engine: set of container records
    next_id,     \* next container id the engine hands out
    calls,       \* per client: position and locals of its current provider call
    issued,      \* number of provider calls begun so far
    created,     \* the metadata that successful creates have returned
    removal_faulted,  \* a removal of a branch or container has hit an engine or SCM fault
    commits,     \* the object database's commits: commit id -> tree, parents, message
    index,       \* the repository's index, as the tree it holds
    worktree,    \* the working directory: the set of entries on disk
    snaps,       \* per writer: position and locals of its current snapshot call
    locked,      \* the refs whose lock file another tool holds
    snap_issued, \* number of snapshot calls begun so far
    probe        \* a function of the program called on its own: name, input, outcome

\* The variables of the provider calls and of the snapshot calls, each with
\* the variable that neither of them touches.
pvars == <<containers, next_id, calls, issued, created, removal_faulted, probe>>
svars == <<commits, index, worktree, snaps, locked, snap_issued, probe>>

Calls == 1..MaxOverlap

None == <<>>
Some(v) == <<v>>
IsSome(o) == Len(o) = 1

MainRef == BranchRef(<<"main">>)
DevRef == BranchRef(<<"dev">>)

\* Repository::head() followed by peel_to_commit(): None when HEAD is unborn.
head_commit_optional ==
    IF IsSome(head.ref)
    THEN IF head.ref[1] \in DOMAIN refs THEN Some(refs[head.ref[1]]) ELSE None
    ELSE head.oid

find_branch(branch) == BranchRef(branch) \in DOMAIN refs

SetRef(r, name, oid) == [n \in (DOMAIN r) \cup {name} |-> IF n = name THEN oid ELSE r[n]]
DropRef(r, name) == [n \in (DOMAIN r) \ {name} |-> r[n]]

\* Inputs of the provider
Names == { <<"A", "!", "b">>, <<"a">>, <<"-", "-">> }

ForwardedPort(name, target) == [name |-> name, target |-> target]

SandboxConfig(setup_command, forwarded_ports) ==
    [image |-> "busybox", setup_command |-> setup_command,
     forwarded_ports |-> forwarded_ports]

Configs ==
    { SandboxConfig(Some("setup"), <<>>),
      SandboxConfig(None, <<ForwardedPort(<<"a">>, 8080), ForwardedPort(<<"A", "-", "b">>, 8081),
                            ForwardedPort(<<"b">>, 8080)>>) }

\* src/src/config_loader.rs validate_ports: TRUE when the ports are accepted.
validate_ports(ports) ==
    /\ \A i \in 1..Len(ports) : ports[i].target # 0 /\ slugify_name(ports[i].name).ok
    /\ \A i, j \in 1..Len(ports) :
           i < j => slugify_name(ports[i].name).slug # slugify_name(ports[j].name).slug

\* Clock values seen by the successive allocations of one create: the clock
\* advances, and two readings may still agree modulo the size of the range.
SeedChoices == { <<0, 1, 2>>, <<0, 0, 1>> }
BusySets == { {}, DEFAULT_PORT_RANGE_START..DEFAULT_PORT_RANGE_END }

\* What the engine reports for the setup command: raw exit code, stdout, stderr.
\* An i64 that the engine reports: high * 2^31 + low, with 0 <= low < 2^31.
I64(high, low) == [high |-> high, low |-> low]
RawExitCodes == { None, Some(I64(0, 0)), Some(I64(0, 7)) }
Outputs == { "", "text" }

I32_MAX == 2147483647
U8_MAX == 255

SandboxMetadata(name, branch_name, container_id, status, forwarded_ports) ==
    [name |-> name, branch_name |-> branch_name, container_id |-> container_id,
     status |-> status, forwarded_ports |-> forwarded_ports]

NoMetadata == SandboxMetadata(<<>>, <<>>, <<>>, "", <<>>)
NoError == Error("", "", 0, <<>>, 0, "")

Ok(metadata) == [ok |-> TRUE, err |-> NoError, metadata |-> metadata]
Err(error) == [ok |-> FALSE, err |-> error, metadata |-> NoMetadata]

IdleCall ==
    [pc |-> "idle", seq |-> 0, op |-> "", name |-> <<>>, config |-> SandboxConfig(None, <<>>),
     metadata |-> NoMetadata,
     slug |-> <<>>, branch_name |-> <<>>, repo_prefix |-> <<>>,
     env |-> <<>>, port_bindings |-> {}, forwarded_ports |-> <<>>,
     container_id |-> <<>>, error |-> NoError, failed_step |-> "",
     branch_created |-> FALSE, container_created |-> FALSE, undo_failed |-> FALSE,
     exec_result |-> None,
     result |-> Err(NoError)]

\* Result of a snapshot call: Ok(Some(oid)), Ok(None) or Err(error).
SnapOk(oid) == [ok |-> TRUE, oid |-> oid, err |-> NoError]
SnapErr(error) == [ok |-> FALSE, oid |-> None, err |-> error]

Writers == 1..MaxWriters

\* A function called on its own: outcome is None until the call has ended.
Probe(fn, input) == [fn |-> fn, input |-> input, outcome |-> None]
NoProbe == Probe("", <<>>)

\* src/src/mcp.rs SnapshotTrigger: the tool call a snapshot is taken after.
SnapshotTrigger(kind, arg) == [kind |-> kind, arg |-> arg]
NoTrigger == SnapshotTrigger("", "")

IdleSnap ==
    [pc |-> "idle", seq |-> 0, snapshot_branch |-> None, staging |-> {}, message |-> "",
     trigger |-> NoTrigger,
     parent |-> None, backup |-> None, tree_oid |-> {}, oid |-> None, retries |-> 0,
     error |-> NoError, failed_step |-> "", ref_at_begin |-> None, restored |-> FALSE,
     result |-> SnapErr(NoError), repeats |-> None, slept |-> 0]

InProgress(c) == calls[c].pc \notin {"idle", "done"}
Overlap == Cardinality({c \in Calls : InProgress(c)})

\* A client begins a call when its previous one has returned; clients are
\* interchangeable, so the lowest-numbered free one goes next.
CanBegin(c, limit, budget) ==
    /\ ~InProgress(c)
    /\ \A d \in Calls : d < c => InProgress(d)
    /\ Overlap < limit
    /\ issued < budget

(***************************************************************************)
(* Files, trees and commits (src/src/scm/mod.rs)                           *)
(***************************************************************************)
\* An entry of a directory on disk; mode holds the permission bits.
File(name, content, mode) ==
    [name |-> name, kind |-> "file", content |-> content, mode |-> mode, children |-> {}]
Dir(name, children) ==
    [name |-> name, kind |-> "dir", content |-> "", mode |-> 493, children |-> children]

\* Object ids are content hashes: an id stands for the content it names.
BlobOid(content) == [kind |-> "blob", blob |-> content, tree |-> {}]
TreeOid(entries) == [kind |-> "tree", blob |-> "", tree |-> entries]
TreeEntry(name, oid, filemode) == [name |-> name, oid |-> oid, filemode |-> filemode]

\* git2::Oid::zero(): the id of no object.
OidZero == {TreeEntry("", BlobOid(""), "000000")}

\* `mode & 0o111 != 0`: one of the three execute bits is set.
has_exec_bit(mode) ==
    \/ mode % 2 = 1
    \/ (mode \div 8) % 2 = 1
    \/ (mode \div 64) % 2 = 1

filemode(mode) == IF has_exec_bit(mode) THEN "100755" ELSE "100644"

\* The entries the tree builder holds after walking a directory: `.git` is
\* skipped at every level, a directory becomes a subtree, a file a blob.
RECURSIVE add_directory_to_tree(_)
add_directory_to_tree(entries) ==
    { IF e.kind = "dir"
      THEN TreeEntry(e.name, TreeOid(add_directory_to_tree(e.children)), "040000")
      ELSE TreeEntry(e.name, BlobOid(e.content), filemode(e.mode))
      : e \in {x \in entries : x.name # ".git"} }

Commit(tree, parents, message) == [tree |-> tree, parents |-> parents, message |-> message]

ReadmeA == File("README.md", "a", 420)
ReadmeB == File("README.md", "b", 420)
RunSh == File("run.sh", "x", 492)
GitDir == Dir(".git", {File("HEAD", "ref", 420)})

\* The commits of a repository with history: 1 on dev, 2 (its child) on main.
InitCommits ==
    << Commit(add_directory_to_tree({ReadmeA}), <<>>, "first"),
       Commit(add_directory_to_tree({ReadmeB}), <<1>>, "second") >>

ProviderStart ==
    /\ head = [ref |-> Some(MainRef), oid |-> None]
    /\ refs = [n \in {MainRef, DevRef} |-> IF n = MainRef THEN 2 ELSE 1]
    /\ containers = {}
    /\ next_id = 1
    /\ calls = [c \in Calls |-> IdleCall]
    /\ issued = 0
    /\ created = {}
    /\ removal_faulted = FALSE
    /\ commits = InitCommits
    /\ index = add_directory_to_tree({ReadmeB})
    /\ worktree = {ReadmeB, GitDir}
    /\ snaps = [w \in Writers |-> IdleSnap]
    /\ locked = {}
    /\ snap_issued = 0

PInit == ProviderStart /\ probe = NoProbe

(***************************************************************************)
(* SCM verbs used by the provider (src/src/scm/mod.rs)                     *)
(***************************************************************************)
\* Variant: the branch is created with force, over an existing one.
GitScm_create_branch_force(r, slug, fault) ==
    LET branch_name == branch_name_for_slug(slug)
        hc == IF IsSome(head.ref)
              THEN IF head.ref[1] \in DOMAIN r THEN Some(r[head.ref[1]]) ELSE None
              ELSE head.oid
    IN  IF ~IsSome(hc) \/ fault = "head"
        THEN [ok |-> FALSE, refs |-> r, err |-> ScmError("BranchCreate")]
        ELSE IF fault = "branch"
        THEN [ok |-> FALSE, refs |-> r, err |-> ScmError("BranchCreate")]
        ELSE [ok |-> TRUE, refs |-> SetRef(r, BranchRef(branch_name), hc[1]),
              err |-> NoError]

\* fault: "" or the step of the verb whose libgit2 call fails.
GitScm_create_branch(r, slug, fault) ==
    LET branch_name == branch_name_for_slug(slug)
        hc == IF IsSome(head.ref)
              THEN IF head.ref[1] \in DOMAIN r THEN Some(r[head.ref[1]]) ELSE None
              ELSE head.oid
    IN  IF ~IsSome(hc) \/ fault = "head"
        THEN [ok |-> FALSE, refs |-> r, err |-> ScmError("BranchCreate")]
        ELSE IF BranchRef(branch_name) \in DOMAIN r
        THEN [ok |-> FALSE, refs |-> r, err |-> SandboxExists(slug)]
        ELSE IF fault = "branch"
        THEN [ok |-> FALSE, refs |-> r, err |-> ScmError("BranchCreate")]
        ELSE [ok |-> TRUE, refs |-> SetRef(r, BranchRef(branch_name), hc[1]),
              err |-> NoError]

\* Variant: a missing branch counts as deleted.
GitScm_delete_branch_idempotent(r, slug, fault) ==
    LET branch_name == branch_name_for_slug(slug) IN
    IF BranchRef(branch_name) \notin DOMAIN r
    THEN [ok |-> TRUE, refs |-> r, err |-> NoError]
    ELSE IF fault = "delete"
    THEN [ok |-> FALSE, refs |-> r, err |-> ScmError("BranchDelete")]
    ELSE [ok |-> TRUE, refs |-> DropRef(r, BranchRef(branch_name)), err |-> NoError]

GitScm_delete_branch(r, slug, fault) ==
    LET branch_name == branch_name_for_slug(slug) IN
    IF BranchRef(branch_name) \notin DOMAIN r
    THEN [ok |-> FALSE, refs |-> r, err |-> SandboxNotFound(slug)]
    ELSE IF fault = "delete"
    THEN [ok |-> FALSE, refs |-> r, err |-> ScmError("BranchDelete")]
    ELSE [ok |-> TRUE, refs |-> DropRef(r, BranchRef(branch_name)), err |-> NoError]

(***************************************************************************)
(* Container engine as seen through DockerCompute (src/src/compute/mod.rs) *)
(***************************************************************************)
ContainerId(n) == <<"id#", ToString(n)>>

\* The engine addresses a container by id or by name.
Lookup(cs, ref) == {k \in cs : k.id = ref \/ k.name = ref}

\* Variant: every error of the engine is swallowed, not only 404.
DockerCompute_delete_container_swallow(cs, container_id, status) ==
    IF Lookup(cs, container_id) = {}
    THEN [ok |-> TRUE, containers |-> cs, err |-> NoError]
    ELSE IF status = 0
    THEN [ok |-> TRUE, containers |-> cs \ Lookup(cs, container_id), err |-> NoError]
    ELSE [ok |-> TRUE, containers |-> cs, err |-> NoError]

\* status: 0 when the engine call succeeds, otherwise its HTTP status.
DockerCompute_delete_container(cs, container_id, status) ==
    IF Lookup(cs, container_id) = {}
    THEN [ok |-> TRUE, containers |-> cs, err |-> NoError]    \* 404 is swallowed
    ELSE IF status = 0
    THEN [ok |-> TRUE, containers |-> cs \ Lookup(cs, container_id), err |-> NoError]
    ELSE [ok |-> FALSE, containers |-> cs, err |-> ComputeError("ContainerDelete", status)]

\* Variant: no error of the engine is taken for a name conflict.
is_container_name_conflict_never(error) == FALSE

is_container_name_conflict(error) ==
    error.kind = "Compute" /\ error.variant = "ContainerProvision" /\ error.status = 409

\* inspect.exit_code.unwrap_or(1).try_into().unwrap_or(i32::MAX)
ExecExitCode(raw) ==
    LET v == IF IsSome(raw) THEN raw[1] ELSE I64(0, 1) IN
    IF v.high = 0 THEN v.low
    ELSE IF v.high = -1 THEN v.low - I32_MAX - 1
    ELSE I32_MAX

\* std::path::Path: absolute or not, and its components.
Path(absolute, parts) == [absolute |-> absolute, parts |-> parts]

\* Path::starts_with and Path::strip_prefix compare whole components.
Path_starts_with(path, base) ==
    /\ path.absolute = base.absolute
    /\ Len(base.parts) <= Len(path.parts)
    /\ SubSeq(path.parts, 1, Len(base.parts)) = base.parts

Path_strip_prefix(path, base) ==
    IF Path_starts_with(path, base)
    THEN Some(Path(FALSE, SubSeq(path.parts, Len(base.parts) + 1, Len(path.parts))))
    ELSE None

\* Path::join: an absolute path replaces the one it is joined to.
Path_join(base, path) ==
    IF path.absolute THEN path ELSE Path(base.absolute, base.parts \o path.parts)

\* The body of extract_tar's loop: where an entry is unpacked, None when it
\* is skipped.  strip_prefix("src") after strip_prefix("src/") is the same
\* test again.
extract_entry(dest_path, path) ==
    IF \/ Path_starts_with(path, Path(FALSE, <<".git">>))
       \/ Path_starts_with(path, Path(FALSE, <<"src", ".git">>))
    THEN None
    ELSE LET first == Path_strip_prefix(path, Path(FALSE, <<"src">>))
             second == Path_strip_prefix(path, Path(TRUE, <<"src">>))
             stripped_path == IF IsSome(first) THEN first[1]
                              ELSE IF IsSome(second) THEN second[1]
                              ELSE path
         IN  IF stripped_path.parts = <<>> /\ ~stripped_path.absolute THEN None
             ELSE Some(Path_join(dest_path, stripped_path))

\* extract_tar: the places the entries of the archive are unpacked at.
extract_tar(dest_path, tar) ==
    { extract_entry(dest_path, tar[i])[1] :
          i \in { j \in 1..Len(tar) : IsSome(extract_entry(dest_path, tar[j])) } }

\* DockerCompute::exec: create_exec, start_exec, the output stream and
\* inspect_exec; status is the engine's error status (0: none) of the first
\* of them that fails, raw the exit code inspect_exec reports.
DockerCompute_exec(status, raw, stdout, stderr) ==
    IF status # 0
    THEN [ok |-> FALSE, err |-> ComputeError("ContainerExec", status),
          result |-> [exit_code |-> 0, stdout |-> "", stderr |-> ""]]
    ELSE [ok |-> TRUE, err |-> NoError,
          result |-> [exit_code |-> ExecExitCode(raw), stdout |-> stdout, stderr |-> stderr]]

(***************************************************************************)
(* DockerSandboxProvider::create (src/src/sandbox/mod.rs), one action per  *)
(* stretch of code between two awaits on the container engine.             *)
(***************************************************************************)
Finish(c, call, result) ==
    /\ calls' = [calls EXCEPT ![c] = [call EXCEPT !.pc = "done", !.result = result]]
    /\ created' = IF result.ok /\ call.op = "create"
                  THEN created \cup {result.metadata} ELSE created
    /\ removal_faulted' = (removal_faulted \/ call.undo_failed)

\* `let _ = self.scm.delete_branch(&slug)`: the undo step; its error is dropped.
UndoBranch(r, slug, fault) == GitScm_delete_branch(r, slug, fault).refs
UndoBranchFailed(r, slug, fault) ==
    LET d == GitScm_delete_branch(r, slug, fault) IN
    ~d.ok /\ d.err.kind # "SandboxNotFound"

\* Variant: the error of a failed undo step is propagated.
create_error_from_undo(error, undo_container_err, undo_branch_err) ==
    IF undo_container_err.kind = "Compute" THEN undo_container_err
    ELSE IF undo_branch_err.kind = "Scm" THEN undo_branch_err
    ELSE error

\* The error create returns once the undo steps have run: the error of the
\* step that failed; the results of the undo steps are discarded.
create_error(error, undo_container_err, undo_branch_err) == error

\* Error of a failed create_container as create reports it.
provision_error(error, slug) ==
    IF is_container_name_conflict(error) THEN SandboxExists(slug) ELSE error

\* Lines 91-110: slugify, create the branch, look up the prefix, archive HEAD,
\* stage it; then the call waits for ensure_image.
CreateBeginNamed(c, limit, budget, names) ==
    /\ CanBegin(c, limit, budget)
    /\ \E name \in names, config \in Configs :
        LET call0 == [IdleCall EXCEPT !.seq = issued + 1, !.op = "create",
                                      !.name = name, !.config = config]
            s == slugify_name(name)
        IN  IF ~s.ok
            THEN /\ Finish(c, [call0 EXCEPT !.failed_step = "slugify", !.error = s.err],
                           Err(s.err))
                 /\ UNCHANGED refs
            ELSE \E fault \in {"", "head", "branch", "archive", "stage"} :
                 LET cb == GitScm_create_branch(refs, s.slug, fault)
                     call1 == [call0 EXCEPT !.slug = s.slug,
                                            !.branch_name = branch_name_for_slug(s.slug),
                                            !.repo_prefix = ThreadSafeScm_repo_prefix,
                                            !.branch_created = TRUE]
                 IN  IF ~cb.ok
                     THEN /\ Finish(c, [call0 EXCEPT !.slug = s.slug,
                                                     !.failed_step = "create_branch",
                                                     !.error = cb.err],
                                    Err(cb.err))
                          /\ UNCHANGED refs
                     ELSE IF fault \in {"archive", "stage"}
                     THEN \E undo \in {"", "delete"} :
                          LET error == IF fault = "archive" THEN ScmError("Archive")
                                       ELSE IoError
                              db == GitScm_delete_branch(cb.refs, s.slug, undo)
                          IN  /\ refs' = UndoBranch(cb.refs, s.slug, undo)
                              /\ Finish(c, [call1 EXCEPT
                                              !.failed_step = fault,
                                              !.error = error,
                                              !.undo_failed = UndoBranchFailed(cb.refs, s.slug, undo)],
                                        Err(create_error(error, NoError, db.err)))
                     ELSE /\ refs' = cb.refs
                          /\ calls' = [calls EXCEPT ![c] = [call1 EXCEPT !.pc = "ensure_image"]]
                          /\ UNCHANGED <<created, removal_faulted>>
    /\ issued' = issued + 1
    /\ UNCHANGED <<head, containers, next_id, svars>>

\* create called with one of the names of Names.
CreateBegin(c, limit, budget) == CreateBeginNamed(c, limit, budget, Names)

\* Lines 110-113: the engine answers ensure_image.
EnsureImageDone(c) ==
    /\ calls[c].pc = "ensure_image"
    /\ \E status \in {0, 500}, variant \in {"ImageInspect", "ImagePull"},
          undo \in {"", "delete"} :
        IF status = 0
        THEN /\ calls' = [calls EXCEPT ![c].pc = "ports"]
             /\ UNCHANGED <<refs, created, removal_faulted>>
        ELSE LET error == ComputeError(variant, status)
                 db == GitScm_delete_branch(refs, calls[c].slug, undo)
             IN  /\ refs' = UndoBranch(refs, calls[c].slug, undo)
                 /\ Finish(c, [calls[c] EXCEPT
                                 !.failed_step = "ensure_image",
                                 !.error = error,
                                 !.undo_failed = UndoBranchFailed(refs, calls[c].slug, undo)],
                           Err(create_error(error, NoError, db.err)))
    /\ UNCHANGED <<head, containers, next_id, issued, svars>>

\* Lines 115-125: allocate the host ports and build the container spec.
BuildPorts(c) ==
    /\ calls[c].pc = "ports"
    /\ \E seeds \in SeedChoices, busy \in BusySets :
        LET r == build_forwarded_ports(calls[c].config, seeds, busy) IN
        IF r.ok
        THEN /\ calls' = [calls EXCEPT ![c] = [calls[c] EXCEPT
                             !.pc = "create_container",
                             !.env = r.env,
                             !.port_bindings = r.port_bindings,
                             !.forwarded_ports = r.forwarded]]
             /\ UNCHANGED <<created, removal_faulted>>
        ELSE Finish(c, [calls[c] EXCEPT !.failed_step = "ports", !.error = r.err],
                    Err(r.err))
    /\ UNCHANGED <<refs, head, containers, next_id, issued, svars>>

\* Engine side of `client.create_container(options, config)`: 409 when the
\* name is taken, otherwise the engine's status; a new container is "created".
Engine_create_container(cs, id, spec, status) ==
    IF \E k \in cs : k.name = spec.name
    THEN [ok |-> FALSE, containers |-> cs, id |-> <<>>,
          err |-> ComputeError("ContainerProvision", 409)]
    ELSE IF status # 0
    THEN [ok |-> FALSE, containers |-> cs, id |-> <<>>,
          err |-> ComputeError("ContainerProvision", status)]
    ELSE [ok |-> TRUE,
          containers |-> cs \cup {[id |-> id, name |-> spec.name, state |-> "created",
                                   env |-> spec.env, port_bindings |-> spec.port_bindings,
                                   has_src |-> FALSE]},
          id |-> id, err |-> NoError]

\* Engine side of `client.start_container(&response.id)`.
Engine_start_container(cs, id, status) ==
    IF Lookup(cs, id) = {}
    THEN [ok |-> FALSE, containers |-> cs, err |-> ComputeError("ContainerProvision", 404)]
    ELSE IF status # 0
    THEN [ok |-> FALSE, containers |-> cs, err |-> ComputeError("ContainerProvision", status)]
    ELSE [ok |-> TRUE,
          containers |-> {IF k \in Lookup(cs, id) THEN [k EXCEPT !.state = "running"] ELSE k
                          : k \in cs},
          err |-> NoError]

ContainerSpec(call) ==
    [name |-> container_name_for_slug(call.repo_prefix, call.slug),
     image |-> call.config.image, env |-> call.env,
     port_bindings |-> call.port_bindings]

\* Lines 178-184: the metadata of a successful create.
create_metadata(call) ==
    SandboxMetadata(call.slug, call.branch_name, call.container_id, "Active",
                    call.forwarded_ports)

\* Lines 127-136, first half of DockerCompute::create_container (lines 166-170).
CreateContainer(c) ==
    /\ calls[c].pc = "create_container"
    /\ \E status \in {0, 500}, undo \in {"", "delete"} :
        LET r == Engine_create_container(containers, ContainerId(next_id),
                                         ContainerSpec(calls[c]), status)
            db == GitScm_delete_branch(refs, calls[c].slug, undo)
        IN  IF r.ok
            THEN /\ containers' = r.containers
                 /\ next_id' = next_id + 1
                 /\ calls' = [calls EXCEPT ![c] = [calls[c] EXCEPT
                                 !.pc = "start_container",
                                 !.container_id = r.id,
                                 !.container_created = TRUE]]
                 /\ UNCHANGED <<refs, created, removal_faulted>>
            ELSE /\ refs' = UndoBranch(refs, calls[c].slug, undo)
                 /\ Finish(c, [calls[c] EXCEPT
                                 !.failed_step = "create_container",
                                 !.error = r.err,
                                 !.undo_failed = UndoBranchFailed(refs, calls[c].slug, undo)],
                           Err(create_error(provision_error(r.err, calls[c].slug),
                                            NoError, db.err)))
                 /\ UNCHANGED <<containers, next_id>>
    /\ UNCHANGED <<head, issued, svars>>

\* Second half of DockerCompute::create_container (lines 172-177), then the
\* provider's match at lines 127-136.
StartContainer(c) ==
    /\ calls[c].pc = "start_container"
    /\ \E status \in {0, 500}, undo \in {"", "delete"} :
        LET r == Engine_start_container(containers, calls[c].container_id, status)
            db == GitScm_delete_branch(refs, calls[c].slug, undo)
        IN  IF r.ok
            THEN /\ containers' = r.containers
                 /\ calls' = [calls EXCEPT ![c].pc = "upload"]
                 /\ UNCHANGED <<refs, created, removal_faulted>>
            ELSE /\ refs' = UndoBranch(refs, calls[c].slug, undo)
                 /\ Finish(c, [calls[c] EXCEPT
                                 !.failed_step = "start_container",
                                 !.error = r.err,
                                 !.undo_failed = UndoBranchFailed(refs, calls[c].slug, undo)],
                           Err(create_error(provision_error(r.err, calls[c].slug),
                                            NoError, db.err)))
                 /\ UNCHANGED containers
    /\ UNCHANGED <<head, next_id, issued, svars>>

\* Variant: stderr is reported as it is, also when it is empty.
setup_error_stderr_only(result) ==
    IF result.exit_code # 0
    THEN Some(SetupCommandFailed(result.exit_code, result.stderr))
    ELSE None

\* Lines 148-176: what create makes of the setup command's ExecutionResult.
setup_error(result) ==
    IF result.exit_code # 0
    THEN Some(SetupCommandFailed(result.exit_code,
                                 IF result.stderr = "" THEN result.stdout
                                 ELSE result.stderr))
    ELSE None

\* Lines 138-146: the engine answers the upload of the staged tree to /src.
UploadDone(c) ==
    /\ calls[c].pc = "upload"
    /\ \E outcome \in {"ok", "io", "engine"} :
        LET found == Lookup(containers, calls[c].container_id) IN
        IF outcome = "ok" /\ found # {}
        THEN /\ containers' = {IF k \in found THEN [k EXCEPT !.has_src = TRUE] ELSE k
                               : k \in containers}
             /\ IF IsSome(calls[c].config.setup_command)
                THEN calls' = [calls EXCEPT ![c].pc = "exec"] /\ UNCHANGED <<created, removal_faulted>>
                ELSE Finish(c, calls[c], Ok(create_metadata(calls[c])))
        ELSE /\ calls' = [calls EXCEPT ![c] = [calls[c] EXCEPT
                             !.pc = "undo_container",
                             !.failed_step = "upload",
                             !.error = IF outcome = "io" THEN IoError
                                       ELSE ComputeError("ContainerUpload",
                                                IF found = {} THEN 404 ELSE 500)]]
             /\ UNCHANGED <<containers, created, removal_faulted>>
    /\ UNCHANGED <<refs, head, next_id, issued, svars>>

\* Lines 148-176: the engine answers the exec of the setup command.
ExecDone(c) ==
    /\ calls[c].pc = "exec"
    /\ \E status \in {0, 500}, raw \in RawExitCodes, stdout \in Outputs, stderr \in Outputs :
        LET found == Lookup(containers, calls[c].container_id)
            result == [exit_code |-> ExecExitCode(raw), stdout |-> stdout, stderr |-> stderr]
        IN  IF status # 0 \/ found = {}
            THEN /\ calls' = [calls EXCEPT ![c] = [calls[c] EXCEPT
                                !.pc = "undo_container",
                                !.failed_step = "exec",
                                !.error = ComputeError("ContainerExec",
                                             IF found = {} THEN 404 ELSE status)]]
                 /\ UNCHANGED <<created, removal_faulted>>
            ELSE IF IsSome(setup_error(result))
            THEN /\ calls' = [calls EXCEPT ![c] = [calls[c] EXCEPT
                                !.pc = "undo_container",
                                !.failed_step = "setup",
                                !.exec_result = Some(result),
                                !.error = setup_error(result)[1]]]
                 /\ UNCHANGED <<created, removal_faulted>>
            ELSE Finish(c, [calls[c] EXCEPT !.exec_result = Some(result)],
                        Ok(create_metadata(calls[c])))
    /\ UNCHANGED <<refs, head, containers, next_id, issued, svars>>

\* The undo of lines 143-145, 157-159 and 164-165: the engine answers
\* delete_container, then the branch is deleted and the error returned.
UndoContainer(c) ==
    /\ calls[c].pc = "undo_container"
    /\ \E status \in {0, 500}, undo \in {"", "delete"} :
        LET dc == DockerCompute_delete_container(containers, calls[c].container_id, status)
            db == GitScm_delete_branch(refs, calls[c].slug, undo)
        IN  /\ containers' = dc.containers
            /\ refs' = UndoBranch(refs, calls[c].slug, undo)
            /\ Finish(c, [calls[c] EXCEPT
                            !.undo_failed = ~dc.ok \/ UndoBranchFailed(refs, calls[c].slug, undo)],
                      Err(create_error(calls[c].error, dc.err, db.err)))
    /\ UNCHANGED <<head, next_id, issued, svars>>

(***************************************************************************)
(* DockerSandboxProvider::delete (src/src/sandbox/mod.rs lines 202-211)    *)
(***************************************************************************)
\* src/src/main.rs metadata_for_slug: the metadata the CLI derives from a name.
metadata_for_slug(repo_prefix, slug) ==
    SandboxMetadata(slug, branch_name_for_slug(slug),
                    container_name_for_slug(repo_prefix, slug), "Active", <<>>)

ValidSlugs == {slugify(n) : n \in {m \in Names : slugify_name(m).ok}}

\* delete is given the metadata derived from a name, or the metadata an
\* earlier create returned.
DeleteInputs ==
    {metadata_for_slug(ThreadSafeScm_repo_prefix, slug) : slug \in ValidSlugs}
    \cup created

DeleteBegin(c, limit, budget) ==
    /\ CanBegin(c, limit, budget)
    /\ \E metadata \in DeleteInputs :
        calls' = [calls EXCEPT ![c] = [IdleCall EXCEPT
                     !.pc = "delete_container", !.seq = issued + 1, !.op = "delete",
                     !.metadata = metadata, !.slug = metadata.name]]
    /\ issued' = issued + 1
    /\ UNCHANGED <<refs, head, containers, next_id, created, removal_faulted, svars>>

\* The engine answers delete_container; then delete_branch runs.
DeleteContainerDone(c) ==
    /\ calls[c].pc = "delete_container"
    /\ \E status \in {0, 500}, fault \in {"", "delete"} :
        LET dc == DockerCompute_delete_container(containers,
                                                 calls[c].metadata.container_id, status)
            db == GitScm_delete_branch(refs, calls[c].metadata.name, fault)
        IN  IF ~dc.ok
            THEN /\ Finish(c, [calls[c] EXCEPT !.failed_step = "delete_container",
                                               !.error = dc.err,
                                               !.undo_failed = TRUE],
                           Err(dc.err))
                 /\ UNCHANGED <<refs, containers>>
            ELSE /\ containers' = dc.containers
                 /\ refs' = db.refs
                 /\ IF db.ok
                    THEN Finish(c, calls[c], Ok(NoMetadata))
                    ELSE Finish(c, [calls[c] EXCEPT !.failed_step = "delete_branch",
                                                    !.error = db.err,
                                                    !.undo_failed = (db.err.kind = "Scm")],
                                Err(db.err))
    /\ UNCHANGED <<head, next_id, issued, svars>>

(***************************************************************************)
(* Snapshot engine (src/src/scm/mod.rs).  Each libgit2 call that reads or  *)
(* writes the snapshot ref is a step of its own: the handles of different  *)
(* tool calls and other tools work on the same repository.                 *)
(***************************************************************************)
GitScm_branch_name(slug) == <<"litterbox/">> \o slug

\* The handles in use: GitScm::open leaves snapshot_branch unset,
\* ThreadSafeScm::for_sandbox pins it to the sandbox's branch name.
ThreadSafeScm_for_sandbox(sandbox_slug) == Some(GitScm_branch_name(sandbox_slug))

\* The sandbox names the tools are called with; snapshot_after hands the
\* name to for_sandbox as it was given.
SandboxArgs == { <<"a">> }

SnapshotBranches == { None } \cup { ThreadSafeScm_for_sandbox(sandbox) : sandbox \in SandboxArgs }

snapshot_branch_ref(snapshot_branch) ==
    IF IsSome(snapshot_branch)
    THEN <<"refs/heads/">> \o snapshot_branch[1]
    ELSE <<"refs/heads/", "litterbox-snapshots">>

\* The commit a reference of the repository points to, if the reference exists.
find_reference(r, ref_name) == IF ref_name \in DOMAIN r THEN Some(r[ref_name]) ELSE None

\* Variant: the parent is always the HEAD commit.
snapshot_parent_head(snapshot_branch) == head_commit_optional

snapshot_parent(snapshot_branch) ==
    LET reference == find_reference(refs, snapshot_branch_ref(snapshot_branch)) IN
    IF IsSome(reference) THEN reference ELSE head_commit_optional

\* Variant: the backup is taken as if the ref did not exist.
backup_snapshot_ref_absent(snapshot_branch) == None

backup_snapshot_ref(snapshot_branch) ==
    find_reference(refs, snapshot_branch_ref(snapshot_branch))

\* The refs after restore_snapshot_ref; failed: the write was refused (the
\* ref is locked, or libgit2 reports an error) and the refs stay as they are.
restore_snapshot_ref(r, snapshot_branch, backup, failed) ==
    LET ref_name == snapshot_branch_ref(snapshot_branch) IN
    IF failed THEN r
    ELSE IF IsSome(backup) THEN SetRef(r, ref_name, backup[1])
    ELSE IF ref_name \in DOMAIN r THEN DropRef(r, ref_name)
    ELSE r

max_retries == 5

\* What the tools hand to commit_snapshot_from_staging: the download of the
\* container's /src and the message of the tool call.
snapshot_message(trigger) ==
    CASE trigger.kind = "Write" -> "write: " \o trigger.arg
      [] trigger.kind = "Patch" -> "patch: " \o trigger.arg
      [] trigger.kind = "Bash" -> "bash: " \o trigger.arg

SnapInputs ==
    { [staging |-> {ReadmeA}, trigger |-> SnapshotTrigger("Write", "README.md")],
      [staging |-> {ReadmeB, GitDir}, trigger |-> SnapshotTrigger("Patch", "README.md")],
      [staging |-> {ReadmeB, Dir("bin", {RunSh, GitDir})},
       trigger |-> SnapshotTrigger("Bash", "ls")] }

SnapInProgress(w) == snaps[w].pc \notin {"idle", "done"}

\* The ThreadSafeScm a writer works on: snapshot_after opens one with
\* for_sandbox for every tool call, so no two writers share a handle.
ThreadSafeScm_handle(w) == w

\* ThreadSafeScm::lock: the Mutex<GitScm> of the writer's own handle is free
\* when no other writer on the same handle is inside an operation.
ThreadSafeScm_lock(w) ==
    \A v \in Writers \ {w} :
        SnapInProgress(v) => ThreadSafeScm_handle(v) # ThreadSafeScm_handle(w)

CanBeginSnap(w, limit, budget) ==
    /\ ~SnapInProgress(w)
    /\ ThreadSafeScm_lock(w)
    /\ \A v \in Writers : v < w => SnapInProgress(v)
    /\ Cardinality({v \in Writers : SnapInProgress(v)}) < limit
    /\ snap_issued < budget

\* The id the caller's previous call returned, when this call is made on the
\* same handle with the same staging contents; None otherwise.
Repeats(previous, snapshot_branch, staging) ==
    IF /\ previous.pc = "done"
       /\ previous.result.ok
       /\ previous.snapshot_branch = snapshot_branch
       /\ previous.staging = staging
    THEN previous.result.oid
    ELSE None

SnapFinish(w, snap, result) ==
    snaps' = [snaps EXCEPT ![w] = [snap EXCEPT !.pc = "done", !.result = result]]

SnapFail(w, snap, step, error) ==
    SnapFinish(w, [snap EXCEPT !.failed_step = step, !.error = error], SnapErr(error))

\* A failure after which the code calls restore_snapshot_ref before returning.
SnapFailRestore(w, snap, step, error) ==
    snaps' = [snaps EXCEPT ![w] = [snap EXCEPT !.pc = "restore", !.failed_step = step,
                                                !.error = error]]

\* commit_snapshot_from_staging begins: snapshot_parent (and signature, which
\* falls back to a fixed identity).  commit_snapshot passes the working
\* directory as the staging directory.
SnapBegin(w, limit, budget) ==
    /\ CanBeginSnap(w, limit, budget)
    /\ \E snapshot_branch \in SnapshotBranches,
          input \in SnapInputs \cup {[staging |-> worktree,
                                       trigger |-> SnapshotTrigger("Write", "README.md")]},
          fault \in {"", "reference"} :
        LET snap == [IdleSnap EXCEPT !.seq = snap_issued + 1,
                                     !.snapshot_branch = snapshot_branch,
                                     !.staging = input.staging,
                                     !.trigger = input.trigger,
                                     !.message = snapshot_message(input.trigger),
                                     !.repeats = Repeats(snaps[w], snapshot_branch,
                                                         input.staging),
                                     !.ref_at_begin =
                                         find_reference(refs, snapshot_branch_ref(snapshot_branch))]
        IN  IF fault = "reference"
            THEN SnapFail(w, snap, "parent", ScmError("Reference"))
            ELSE snaps' = [snaps EXCEPT ![w] =
                              [snap EXCEPT !.pc = "backup",
                                           !.parent = snapshot_parent(snapshot_branch)]]
    /\ snap_issued' = snap_issued + 1
    /\ UNCHANGED <<refs, head, commits, index, worktree, locked, pvars>>

\* backup_snapshot_ref
SnapBackup(w) ==
    /\ snaps[w].pc = "backup"
    /\ \E fault \in {"", "find_reference"} :
        IF fault = "find_reference"
        THEN SnapFail(w, snaps[w], "backup", ScmError("Commit"))
        ELSE snaps' = [snaps EXCEPT ![w] =
                          [@ EXCEPT !.pc = "tree",
                                    !.backup = backup_snapshot_ref(snaps[w].snapshot_branch)]]
    /\ UNCHANGED <<refs, head, commits, index, worktree, locked, snap_issued, pvars>>

\* Variant: the tree is never found equal to the parent's.
tree_unchanged_never(parent, tree_oid) == FALSE

\* "Check if tree changed": the tree is the parent's tree, or there is no
\* parent and the tree id is zero.
tree_unchanged(parent, tree_oid) ==
    IF IsSome(parent)
    THEN commits[parent[1]].tree = tree_oid
    ELSE tree_oid = OidZero

\* treebuilder, add_directory_to_tree, builder.write, the comparison with the
\* parent's tree, find_tree.
SnapTree(w) ==
    /\ snaps[w].pc = "tree"
    /\ \E fault \in {"", "treebuilder", "read_dir", "blob", "write", "find_tree"} :
        LET snap == snaps[w]
            tree_oid == add_directory_to_tree(snap.staging)
            written == [snap EXCEPT !.tree_oid = tree_oid]
        IN  IF fault = "treebuilder" THEN SnapFail(w, snap, "tree_build", ScmError("Commit"))
            ELSE IF fault = "read_dir" THEN SnapFail(w, snap, "tree_build", IoError)
            ELSE IF fault = "blob" THEN SnapFail(w, snap, "tree_build", ScmError("Commit"))
            ELSE IF fault = "write"
            THEN SnapFailRestore(w, snap, "tree_write", ScmError("Commit"))
            ELSE IF tree_unchanged(snap.parent, tree_oid)
            THEN SnapFinish(w, written, SnapOk(None))
            ELSE IF fault = "find_tree"
            THEN SnapFailRestore(w, written, "find_tree", ScmError("Commit"))
            ELSE snaps' = [snaps EXCEPT ![w] = [written EXCEPT !.pc = "commit"]]
    /\ UNCHANGED <<refs, head, commits, index, worktree, locked, snap_issued, pvars>>

\* repo.commit(None, ...): the commit object is written, no ref is updated.
SnapCommit(w) ==
    /\ snaps[w].pc = "commit"
    /\ \E fault \in {"", "commit"} :
        IF fault = "commit"
        THEN /\ SnapFailRestore(w, snaps[w], "commit", ScmError("Commit"))
             /\ UNCHANGED commits
        ELSE /\ commits' = Append(commits, Commit(snaps[w].tree_oid, snaps[w].parent,
                                                  snaps[w].message))
             /\ snaps' = [snaps EXCEPT ![w] = [@ EXCEPT !.pc = "update",
                                                        !.oid = Some(Len(commits) + 1)]]
    /\ UNCHANGED <<refs, head, index, worktree, locked, snap_issued, pvars>>

\* One turn of the loop that points the snapshot ref at the new commit:
\* set_target on the existing ref, or creation of the ref.  A ref whose lock
\* another tool holds gives Locked.
\* Variant: one more turn of the loop is allowed.
may_retry_once_more(is_locked, retries) == is_locked /\ retries <= max_retries

\* `Err(e) if e.code() == Locked && retries < max_retries`
may_retry(is_locked, retries) == is_locked /\ retries < max_retries

\* The sleep before the next turn, in milliseconds; retries is already counted up.
backoff_ms(retries) == 10 * retries

SnapUpdateRef(w) ==
    /\ snaps[w].pc = "update"
    /\ LET snap == snaps[w]
           ref_name == snapshot_branch_ref(snap.snapshot_branch)
       IN  \E error \in IF ref_name \in locked THEN {"Locked"} ELSE {"", "set_target"} :
               IF error = ""
               THEN /\ refs' = SetRef(refs, ref_name, snap.oid[1])
                    /\ SnapFinish(w, snap, SnapOk(snap.oid))
               ELSE /\ IF may_retry(error = "Locked", snap.retries)
                       THEN snaps' = [snaps EXCEPT ![w] =
                                         [snap EXCEPT !.retries = @ + 1,
                                                      !.slept = backoff_ms(snap.retries + 1)]]
                       ELSE SnapFailRestore(w, snap, "update", ScmError("Commit"))
                    /\ UNCHANGED refs
    /\ UNCHANGED <<head, commits, index, worktree, locked, snap_issued, pvars>>

\* `let _ = self.restore_snapshot_ref(&backup)`, then the error is returned.
SnapRestore(w) ==
    /\ snaps[w].pc = "restore"
    /\ \E fault \in {"", "reference"} :
        LET snap == snaps[w]
            failed == fault = "reference"
                      \/ snapshot_branch_ref(snap.snapshot_branch) \in locked
        IN  /\ refs' = restore_snapshot_ref(refs, snap.snapshot_branch, snap.backup, failed)
            /\ SnapFinish(w, [snap EXCEPT !.restored = ~failed], SnapErr(snap.error))
    /\ UNCHANGED <<head, commits, index, worktree, locked, snap_issued, pvars>>

\* Another tool working on the repository takes the lock of a snapshot ref
\* and gives it back.  Only the ref update and the restore meet the lock, so
\* the lock is taken when a call is about to write that ref.
ExtLock ==
    /\ locked = {}
    /\ \E w \in Writers :
        /\ snaps[w].pc \in {"update", "restore"}
        /\ locked' = {snapshot_branch_ref(snaps[w].snapshot_branch)}
    /\ UNCHANGED <<refs, head, commits, index, worktree, snaps, snap_issued, pvars>>

ExtUnlock ==
    /\ locked # {}
    /\ locked' = {}
    /\ UNCHANGED <<refs, head, commits, index, worktree, snaps, snap_issued, pvars>>

\* stage_all: the index takes every file of the working directory.
StageAll ==
    /\ \A w \in Writers : ~SnapInProgress(w)
    /\ index' = add_directory_to_tree(worktree)
    /\ UNCHANGED <<refs, head, commits, worktree, snaps, locked, snap_issued, pvars>>

Diffs == { [from |-> "a", to |-> "b"], [from |-> "b", to |-> "a"] }

\* apply_patch: a diff of README.md applied to the working directory.
apply_patch(files, diff) ==
    LET old == File("README.md", diff.from, 420)
        new == File("README.md", diff.to, 420)
    IN  IF old \in files
        THEN [ok |-> TRUE, files |-> (files \ {old}) \cup {new}]
        ELSE [ok |-> FALSE, files |-> files]

ApplyPatch ==
    /\ \A w \in Writers : ~SnapInProgress(w)
    /\ \E diff \in Diffs : worktree' = apply_patch(worktree, diff).files
    /\ UNCHANGED <<refs, head, commits, index, snaps, locked, snap_issued, pvars>>

\* Repositories a snapshot may find: HEAD on main, HEAD on the sandbox's
\* branch, HEAD detached, and a repository without commits.
Repos ==
    { [refs |-> [n \in {MainRef, DevRef} |-> IF n = MainRef THEN 2 ELSE 1],
       head |-> [ref |-> Some(MainRef), oid |-> None],
       commits |-> InitCommits, files |-> {ReadmeB, GitDir}],
      [refs |-> [n \in {MainRef, DevRef, BranchRef(GitScm_branch_name(<<"a">>))} |->
                    IF n = DevRef THEN 1 ELSE 2],
       head |-> [ref |-> Some(BranchRef(GitScm_branch_name(<<"a">>))), oid |-> None],
       commits |-> InitCommits, files |-> {ReadmeB, GitDir}],
      [refs |-> [n \in {MainRef, DevRef} |-> IF n = MainRef THEN 2 ELSE 1],
       head |-> [ref |-> None, oid |-> Some(1)],
       commits |-> InitCommits, files |-> {ReadmeA, GitDir}],
      [refs |-> [n \in {} |-> 0],
       head |-> [ref |-> Some(MainRef), oid |-> None],
       commits |-> <<>>, files |-> {GitDir}] }

SInit ==
    /\ \E repo \in Repos :
        /\ refs = repo.refs
        /\ head = repo.head
        /\ commits = repo.commits
        /\ worktree = repo.files
        /\ index = add_directory_to_tree(repo.files)
    /\ containers = {}
    /\ next_id = 1
    /\ calls = [c \in Calls |-> IdleCall]
    /\ issued = 0
    /\ created = {}
    /\ removal_faulted = FALSE
    /\ snaps = [w \in Writers |-> IdleSnap]
    /\ locked = {}
    /\ snap_issued = 0
    /\ probe = NoProbe

(***************************************************************************)
(* Specifications of the provider                                          *)
(***************************************************************************)
vars == <<refs, head, containers, next_id, calls, issued, created, removal_faulted,
          commits, index, worktree, snaps, locked, snap_issued, probe>>

Init == PInit

\* Calls of several clients may overlap (MCP tool calls, CLI invocations).
Next ==
    \E c \in Calls :
        \/ CreateBegin(c, MaxOverlap, MaxOverlapCalls)
        \/ EnsureImageDone(c)
        \/ BuildPorts(c)
        \/ CreateContainer(c)
        \/ StartContainer(c)
        \/ UploadDone(c)
        \/ ExecDone(c)
        \/ UndoContainer(c)
        \/ DeleteBegin(c, MaxOverlap, MaxOverlapCalls)
        \/ DeleteContainerDone(c)

Spec == Init /\ [][Next]_vars

\* One call at a time: the contract of each operation taken alone.
SeqNext ==
    \E c \in Calls :
        \/ CreateBegin(c, 1, MaxCalls)
        \/ EnsureImageDone(c)
        \/ BuildPorts(c)
        \/ CreateContainer(c)
        \/ StartContainer(c)
        \/ UploadDone(c)
        \/ ExecDone(c)
        \/ UndoContainer(c)
        \/ DeleteBegin(c, 1, MaxCalls)
        \/ DeleteContainerDone(c)

SeqSpec == Init /\ [][SeqNext]_vars

\* create called MaxCreateCalls times, one call after the other: what a call
\* finds is what the calls before it have left.
CreateNext ==
    \E c \in Calls :
        \/ CreateBegin(c, 1, MaxCreateCalls)
        \/ EnsureImageDone(c)
        \/ BuildPorts(c)
        \/ CreateContainer(c)
        \/ StartContainer(c)
        \/ UploadDone(c)
        \/ ExecDone(c)
        \/ UndoContainer(c)

CreateSpec == Init /\ [][CreateNext]_vars

\* Snapshot calls one at a time, next to the other SCM verbs and to a tool
\* that locks the snapshot ref.
SnapNext ==
    \/ \E w \in Writers :
        \/ SnapBegin(w, 1, MaxSnapCalls)
        \/ SnapBackup(w)
        \/ SnapTree(w)
        \/ SnapCommit(w)
        \/ SnapUpdateRef(w)
        \/ SnapRestore(w)
    \/ ExtLock
    \/ ExtUnlock
    \/ StageAll
    \/ ApplyPatch

SnapSpec == SInit /\ [][SnapNext]_vars

\* Snapshot calls of tool calls that overlap: each tool call opens a handle
\* of its own on the repository, so the calls interleave step by step.
ConcSnapNext ==
    \/ \E w \in Writers :
        \/ SnapBegin(w, MaxWriters, MaxSnapCalls)
        \/ SnapBackup(w)
        \/ SnapTree(w)
        \/ SnapCommit(w)
        \/ SnapUpdateRef(w)
        \/ SnapRestore(w)
    \/ ExtLock
    \/ ExtUnlock

ConcSnapSpec == SInit /\ [][ConcSnapNext]_vars

\* The snapshot call next to a tool that holds the ref's lock for as long as
\* it likes; the thread that runs the call keeps running: every sleep of the
\* retry loop ends and the next turn, or the restore, is taken.
RetryNext ==
    \/ \E w \in Writers :
        \/ SnapBegin(w, 1, MaxRetryCalls)
        \/ SnapBackup(w)
        \/ SnapTree(w)
        \/ SnapCommit(w)
        \/ SnapUpdateRef(w)
        \/ SnapRestore(w)
    \/ ExtLock
    \/ ExtUnlock

RetrySpec ==
    /\ SInit
    /\ [][RetryNext]_vars
    /\ WF_vars(\E w \in Writers : SnapUpdateRef(w) \/ SnapRestore(w))

(***************************************************************************)
(* Functions called on their own                                           *)
(***************************************************************************)
\* The ranges, clock values and bound ports allocate_host_port is called
\* with; busy is the interval of the ports that cannot be bound.
AllocRanges ==
    { [range_start |-> DEFAULT_PORT_RANGE_START, range_end |-> DEFAULT_PORT_RANGE_END],
      [range_start |-> 45000, range_end |-> 45010],
      [range_start |-> 9000, range_end |-> 8000],
      [range_start |-> 7, range_end |-> 7],
      [range_start |-> 65500, range_end |-> U16 - 1],
      [range_start |-> 1, range_end |-> U16 - 1],
      [range_start |-> 0, range_end |-> U16 - 1] }

AllocSeeds == { 0, 5, 11, 1762372800 }

AllocBusy(range) ==
    { [from |-> 1, to |-> 0],
      [from |-> range.range_start, to |-> range.range_start],
      [from |-> range.range_start, to |-> range.range_start + 5],
      [from |-> range.range_start, to |-> range.range_end - 1],
      [from |-> range.range_start, to |-> range.range_end] }

AllocInputs ==
    { [range_start |-> range.range_start, range_end |-> range.range_end,
       seed |-> seed, busy |-> busy] :
          range \in AllocRanges, seed \in AllocSeeds,
          busy \in UNION {AllocBusy(r) : r \in AllocRanges} }

\* How a call of allocate_host_port ends: it returns, or the thread panics.
\* `range_end - range_start + 1` is u16 arithmetic: when the sum does not fit
\* a build with overflow checks panics and a build without them goes on
\* with the wrapped value.
allocate_host_port_outcomes(range_start, range_end, seed, busy) ==
    LET returned == [panicked |-> FALSE,
                     result |-> allocate_host_port(range_start, range_end, seed, busy)]
        panicked == [panicked |-> TRUE,
                     result |-> [ok |-> FALSE, port |-> 0, err |-> NoError, probed |-> <<>>]]
    IN  IF range_end >= range_start /\ range_end - range_start + 1 >= U16
        THEN {returned, panicked}
        ELSE {returned}

AllocateHostPort ==
    /\ probe.fn = "allocate_host_port"
    /\ probe.outcome = None
    /\ \E outcome \in allocate_host_port_outcomes(probe.input.range_start,
                                                  probe.input.range_end, probe.input.seed,
                                                  probe.input.busy.from..probe.input.busy.to) :
        probe' = [probe EXCEPT !.outcome = Some(outcome)]
    /\ UNCHANGED <<refs, head, containers, next_id, calls, issued, created,
                   removal_faulted, commits, index, worktree, snaps, locked, snap_issued>>

AllocInit ==
    /\ ProviderStart
    /\ \E input \in AllocInputs : probe = Probe("allocate_host_port", input)

AllocSpec == AllocInit /\ [][AllocateHostPort]_vars

(***************************************************************************)
(* MCP tool handlers (src/src/mcp.rs).  A text is a sequence of pieces; a  *)
(* tool call is taken with the engine's answers to the calls it issues.    *)
(***************************************************************************)
McpError(code, message) == [code |-> code, message |-> message]
NoMcpError == McpError("", <<>>)

\* Display of SandboxError (src/src/domain/mod.rs, the #[error] texts).
to_string(error) ==
    CASE error.kind = "InvalidName" -> <<"Invalid sandbox name: '">> \o error.name \o <<"'. ">>
      [] error.kind = "SandboxExists" -> <<"Sandbox '">> \o error.name \o <<"' already exists.">>
      [] error.kind = "SandboxNotFound" -> <<"Sandbox '">> \o error.name \o <<"' not found.">>
      [] error.kind = "Scm" -> <<"SCM error: ", error.variant>>
      [] error.kind = "Compute" -> <<"Compute error: ", error.variant, ToString(error.status)>>
      [] error.kind = "SetupCommandFailed" ->
            <<"Setup command failed with exit code ", ToString(error.exit_code), ": ",
              error.stderr>>
      [] error.kind = "Io" -> <<"I/O error: ">>
      [] error.kind = "Config" -> <<"Configuration error: ">>
      [] OTHER -> <<>>

map_error(error) ==
    IF error.kind \in {"InvalidName", "SandboxExists", "SandboxNotFound"}
    THEN McpError("invalid_params", to_string(error))
    ELSE McpError("internal_error", to_string(error))

is_container_missing(error) ==
    /\ error.kind = "Compute"
    /\ error.variant \in {"ContainerExec", "ContainerInspect"}
    /\ error.status = 404

\* Variant: the engine's 404 is not looked for.
map_sandbox_error_plain(name, error) == map_error(error)

map_sandbox_error(name, error) ==
    IF is_container_missing(error)
    THEN McpError("invalid_params", <<"Sandbox '">> \o name \o <<"' not found.">>)
    ELSE map_error(error)

resolve_sandbox_metadata(name) ==
    LET s == slugify_name(name) IN
    IF ~s.ok THEN [ok |-> FALSE, err |-> s.err, metadata |-> NoMetadata]
    ELSE [ok |-> TRUE, err |-> NoError,
          metadata |-> SandboxMetadata(name, branch_name_for_slug(s.slug),
                                       container_name_for_slug(ThreadSafeScm_repo_prefix, s.slug),
                                       "Active", <<>>)]

\* The u16 values whose decimal text the model's containers can hold.
PortNumbers ==
    (DEFAULT_PORT_RANGE_START..(DEFAULT_PORT_RANGE_START + PORT_ALLOC_MAX_RETRIES))
    \cup {80, 8080, 8081, 9000}

\* str::parse::<u16> of a text.
parse_u16(value) ==
    IF Len(value) = 1 /\ \E n \in PortNumbers : ToString(n) = value[1]
    THEN Some(CHOOSE n \in PortNumbers : ToString(n) = value[1])
    ELSE None

\* str::split_once('='): the texts before and after the first "=".
split_once_eq(entry) ==
    LET at == { i \in 1..Len(entry) : entry[i] = "=" } IN
    IF at = {} THEN None
    ELSE LET i == CHOOSE i \in at : \A j \in at : i <= j
         IN  Some([key |-> SubSeq(entry, 1, i - 1),
                   value |-> SubSeq(entry, i + 1, Len(entry))])

\* The first loop of forwarded_ports_from_inspection: host port -> env key,
\* a later entry replacing an earlier one with the same port.
RECURSIVE env_map_loop(_, _, _)
env_map_loop(env, i, env_map) ==
    IF i > Len(env) THEN env_map
    ELSE LET kv == split_once_eq(env[i])
             port == IF IsSome(kv) THEN parse_u16(kv[1].value) ELSE None
         IN  IF /\ IsSome(kv)
                /\ Len(kv[1].key) >= 1 /\ kv[1].key[1] = "LITTERBOX_FWD_PORT_"
                /\ IsSome(port)
             THEN env_map_loop(env, i + 1,
                      [n \in (DOMAIN env_map) \cup {port[1]} |->
                          IF n = port[1] THEN kv[1].key ELSE env_map[n]])
             ELSE env_map_loop(env, i + 1, env_map)

\* strip_prefix("LITTERBOX_FWD_PORT_"), to_ascii_lowercase, replace('_', "-")
mapping_name(env_var) ==
    [i \in 1..(Len(env_var) - 1) |->
        IF to_ascii_lowercase(env_var[i + 1]) = "_" THEN "-"
        ELSE to_ascii_lowercase(env_var[i + 1])]

\* forwarded_ports_from_inspection: the mappings, in the order the map of
\* bindings happens to be walked, taken as a set.
forwarded_ports_from_inspection(inspection) ==
    LET env_map == env_map_loop(inspection.env, 1, [n \in {} |-> <<>>])
        target(b) == parse_u16(<<b.key[1]>>)
        host_port(b) == parse_u16(<<b.host_port>>)
        mapped == { b \in inspection.port_bindings :
                       /\ IsSome(target(b))
                       /\ IsSome(host_port(b))
                       /\ host_port(b)[1] \in DOMAIN env_map }
    IN  { [name |-> mapping_name(env_map[host_port(b)[1]]),
           target |-> target(b)[1],
           host_port |-> host_port(b)[1],
           env_var |-> env_map[host_port(b)[1]]] : b \in mapped }

\* What the engine gives back for one inspect or exec: an HTTP error status
\* (0: none) or the result of the command.
EngineAnswer(status, exit_code, stdout, stderr) ==
    [status |-> status, exit_code |-> exit_code, stdout |-> stdout, stderr |-> stderr]

ExecutionResult(exit_code, stdout, stderr) ==
    [exit_code |-> exit_code, stdout |-> stdout, stderr |-> stderr]

\* DockerCompute::exec behind provider.shell: any engine error of the three
\* exec calls is ContainerExec.
exec_in_sandbox(answer) ==
    IF answer.status # 0
    THEN [ok |-> FALSE, err |-> ComputeError("ContainerExec", answer.status),
          result |-> ExecutionResult(0, <<>>, <<>>)]
    ELSE [ok |-> TRUE, err |-> NoError,
          result |-> ExecutionResult(answer.exit_code, answer.stdout, answer.stderr)]

inspect_container(answer) ==
    IF answer.status # 0
    THEN [ok |-> FALSE, err |-> ComputeError("ContainerInspect", answer.status)]
    ELSE [ok |-> TRUE, err |-> NoError]

\* str::trim and str::contains on a text.
RECURSIVE trim(_)
trim(text) ==
    IF Len(text) > 0 /\ text[1] \in {" ", "\n"} THEN trim(Tail(text))
    ELSE IF Len(text) > 0 /\ text[Len(text)] \in {" ", "\n"}
    THEN trim(SubSeq(text, 1, Len(text) - 1))
    ELSE text

contains(text, piece) == \E i \in 1..Len(text) : text[i] = piece

\* The error of a tool: Sandbox(source) or one of the classified failures.
ToolError(variant, source, message) ==
    [variant |-> variant, source |-> source, message |-> message]

\* classify_read_failure, classify_write_failure, classify_ls_failure and
\* classify_glob_failure are the same function of the result.
classify_failure(result) ==
    LET stderr == trim(result.stderr)
        stdout == trim(result.stdout)
        message == IF stderr # <<>> THEN stderr ELSE stdout
    IN  IF contains(message, "No such file or directory")
        THEN ToolError("NotFound", NoError, <<>>)
        ELSE IF contains(message, "Permission denied")
        THEN ToolError("PermissionDenied", NoError, <<>>)
        ELSE IF message = <<>>
        THEN ToolError("Failed", NoError, <<"exit code ", ToString(result.exit_code)>>)
        ELSE ToolError("Failed", NoError, message)

\* Variant: the pattern rule is tried before the two path rules.
classify_grep_failure_pattern_first(result) ==
    LET stderr == trim(result.stderr)
        stdout == trim(result.stdout)
        message == IF stderr # <<>> THEN stderr ELSE stdout
    IN  IF contains(message, "Unmatched") \/ contains(message, "Invalid")
        THEN ToolError("InvalidPattern", NoError, message)
        ELSE IF contains(message, "No such file or directory")
        THEN ToolError("NotFound", NoError, <<>>)
        ELSE IF contains(message, "Permission denied")
        THEN ToolError("PermissionDenied", NoError, <<>>)
        ELSE IF message = <<>>
        THEN ToolError("Failed", NoError, <<"exit code ", ToString(result.exit_code)>>)
        ELSE ToolError("Failed", NoError, message)

classify_grep_failure(result) ==
    LET stderr == trim(result.stderr)
        stdout == trim(result.stdout)
        message == IF stderr # <<>> THEN stderr ELSE stdout
    IN  IF contains(message, "No such file or directory")
        THEN ToolError("NotFound", NoError, <<>>)
        ELSE IF contains(message, "Permission denied")
        THEN ToolError("PermissionDenied", NoError, <<>>)
        ELSE IF contains(message, "Unmatched") \/ contains(message, "Invalid")
        THEN ToolError("InvalidPattern", NoError, message)
        ELSE IF message = <<>>
        THEN ToolError("Failed", NoError, <<"exit code ", ToString(result.exit_code)>>)
        ELSE ToolError("Failed", NoError, message)

\* map_read_error, map_write_error, map_ls_error, map_glob_tool_error and
\* map_grep_error: the same match, with the tool's words in the texts.
map_tool_error(sandbox, error, not_found, failed) ==
    CASE error.variant = "Sandbox" -> map_sandbox_error(sandbox, error.source)
      [] error.variant = "NotFound" -> McpError("invalid_params", <<not_found>>)
      [] error.variant = "PermissionDenied" -> McpError("invalid_params", <<"permission denied: ">>)
      [] error.variant = "InvalidPattern" ->
            McpError("invalid_params", <<"invalid pattern: ">> \o error.message)
      [] error.variant = "Failed" -> McpError("internal_error", <<failed>> \o error.message)

map_read_error(sandbox, error) ==
    map_tool_error(sandbox, error, "file not found: ", "failed to read: ")
map_write_error(sandbox, error) ==
    map_tool_error(sandbox, error, "path not found: ", "failed to write: ")
map_ls_error(sandbox, error) ==
    map_tool_error(sandbox, error, "path not found: ", "failed to list: ")
map_glob_tool_error(sandbox, error) ==
    map_tool_error(sandbox, error, "path not found: ", "glob failed: ")
map_grep_error(sandbox, error) ==
    map_tool_error(sandbox, error, "path not found: ", "grep failed: ")
map_bash_error(sandbox, error) == map_sandbox_error(sandbox, error.source)

\* map_patch_error: the sandbox name is not used.
map_patch_error(sandbox, error) ==
    CASE error.variant = "InvalidPatch" -> McpError("invalid_params", <<"invalid patch: ">>)
      [] error.variant = "ReadFile" ->
            McpError("internal_error", <<"failed to read file for patching: ">>)
      [] error.variant = "WriteFile" ->
            McpError("internal_error", <<"failed to write patched file: ">>)
      [] error.variant = "ApplyFailed" ->
            McpError("internal_error", <<"failed to apply patch: ">>)

\* The *_in_sandbox functions: [ok, err: ToolError, engine_calls: engine calls made].
\* output: the Ok value of read (a text) and of grep (a list of lines).
ToolOk(engine_calls) ==
    [ok |-> TRUE, err |-> ToolError("", NoError, <<>>), engine_calls |-> engine_calls,
     output |-> <<>>]
ToolErr(error, engine_calls) ==
    [ok |-> FALSE, err |-> error, engine_calls |-> engine_calls, output |-> <<>>]

\* read_in_sandbox, write_in_sandbox, ls_in_sandbox: one exec, a non-zero
\* exit code is classified.
exec_and_classify(answer) ==
    LET e == exec_in_sandbox(answer) IN
    IF ~e.ok THEN ToolErr(ToolError("Sandbox", e.err, <<>>), 1)
    ELSE IF e.result.exit_code # 0 THEN ToolErr(classify_failure(e.result), 1)
    ELSE ToolOk(1)

\* str::split_inclusive('\n'): the segments of a text, each ending with its
\* newline except possibly the last.
RECURSIVE split_inclusive(_)
split_inclusive(content) ==
    IF content = <<>> THEN <<>>
    ELSE LET n == CHOOSE i \in 1..Len(content) :
                      /\ content[i] = "\n" \/ i = Len(content)
                      /\ \A j \in 1..(i - 1) : content[j] # "\n"
         IN  <<SubSeq(content, 1, n)>> \o split_inclusive(SubSeq(content, n + 1, Len(content)))

\* usize::MAX; the model's usize is 16 bits wide.
USIZE_MAX == 65535

\* Variant: the end of the slice is computed as start + max in usize
\* arithmetic, which wraps.
RECURSIVE slice_content_loop_sum(_, _, _, _, _)
slice_content_loop_sum(segments, idx, start, max, result) ==
    IF idx >= Len(segments) THEN result
    ELSE IF idx >= (start + max) % (USIZE_MAX + 1) THEN result
    ELSE IF idx >= start
    THEN slice_content_loop_sum(segments, idx + 1, start, max, result \o segments[idx + 1])
    ELSE slice_content_loop_sum(segments, idx + 1, start, max, result)

\* The loop of slice_content over the enumerated segments (idx: the index, from 0).
RECURSIVE slice_content_loop(_, _, _, _, _)
slice_content_loop(segments, idx, start, max, result) ==
    IF idx >= Len(segments) THEN result
    ELSE IF idx >= start
    THEN IF idx - start >= max THEN result
         ELSE slice_content_loop(segments, idx + 1, start, max,
                                 result \o segments[idx + 1])
    ELSE slice_content_loop(segments, idx + 1, start, max, result)

slice_content(content, offset, limit) ==
    LET start == IF IsSome(offset) THEN offset[1] ELSE 0
        max == IF IsSome(limit) THEN limit[1] ELSE USIZE_MAX
    IN  IF max = 0 THEN <<>>
        ELSE slice_content_loop(split_inclusive(content), 0, start, max, <<>>)

read_in_sandbox(answer, offset, limit) ==
    LET r == exec_and_classify(answer) IN
    IF r.ok THEN [r EXCEPT !.output = slice_content(answer.stdout, offset, limit)] ELSE r
write_in_sandbox(answer) == exec_and_classify(answer)
ls_in_sandbox(answer) == exec_and_classify(answer)

\* glob_in_sandbox: the pattern is compiled after the listing was fetched.
glob_in_sandbox(answer, pattern_ok) ==
    LET r == exec_and_classify(answer) IN
    IF ~r.ok THEN r
    ELSE IF ~pattern_ok THEN ToolErr(ToolError("InvalidPattern", NoError, <<>>), 1)
    ELSE r

\* str::trim_end_matches('\r')
RECURSIVE trim_end_matches_cr(_)
trim_end_matches_cr(line) ==
    IF Len(line) > 0 /\ line[Len(line)] = "\r"
    THEN trim_end_matches_cr(SubSeq(line, 1, Len(line) - 1))
    ELSE line

\* str::lines: the segments without their "\n" and without a "\r" before it.
lines(output) ==
    LET segments == split_inclusive(output)
        strip(segment) ==
            IF segment[Len(segment)] # "\n" THEN segment
            ELSE IF Len(segment) > 1 /\ segment[Len(segment) - 1] = "\r"
            THEN SubSeq(segment, 1, Len(segment) - 2)
            ELSE SubSeq(segment, 1, Len(segment) - 1)
    IN  [i \in 1..Len(segments) |-> strip(segments[i])]

parse_grep_output(output) ==
    SelectSeq([i \in 1..Len(lines(output)) |-> trim_end_matches_cr(lines(output)[i])],
              LAMBDA line : line # <<>>)

\* Variant: exit code 1 is "no match" whatever grep wrote to stderr.
grep_in_sandbox_exit_one(answer) ==
    LET e == exec_in_sandbox(answer) IN
    IF ~e.ok THEN ToolErr(ToolError("Sandbox", e.err, <<>>), 1)
    ELSE IF e.result.exit_code = 0
    THEN [ToolOk(1) EXCEPT !.output = parse_grep_output(e.result.stdout)]
    ELSE IF e.result.exit_code = 1 THEN ToolOk(1)
    ELSE ToolErr(classify_grep_failure(e.result), 1)

grep_in_sandbox(answer) ==
    LET e == exec_in_sandbox(answer) IN
    IF ~e.ok THEN ToolErr(ToolError("Sandbox", e.err, <<>>), 1)
    ELSE IF e.result.exit_code = 0
    THEN [ToolOk(1) EXCEPT !.output = parse_grep_output(e.result.stdout)]
    ELSE IF e.result.exit_code = 1 /\ trim(e.result.stderr) = <<>> THEN ToolOk(1)
    ELSE ToolErr(classify_grep_failure(e.result), 1)

\* Variant: a command that exits with a non-zero code is a failure of the tool.
bash_in_sandbox_checked(answer) ==
    LET e == exec_in_sandbox(answer) IN
    IF ~e.ok THEN ToolErr(ToolError("Sandbox", e.err, <<>>), 1)
    ELSE IF e.result.exit_code # 0 THEN ToolErr(classify_failure(e.result), 1)
    ELSE [ToolOk(1) EXCEPT !.output = e.result]

\* bash_in_sandbox: the ExecutionResult, whatever its exit code.
bash_in_sandbox(answer) ==
    LET e == exec_in_sandbox(answer) IN
    IF ~e.ok THEN ToolErr(ToolError("Sandbox", e.err, <<>>), 1)
    ELSE [ToolOk(1) EXCEPT !.output = e.result]

\* patch_in_sandbox: read, parse, apply, write.
patch_in_sandbox(answers, patch_ok, apply_ok) ==
    LET r == read_in_sandbox(answers[1], None, None)
        w == write_in_sandbox(answers[2])
    IN  IF ~r.ok THEN ToolErr(ToolError("ReadFile", r.err.source, <<>>), 1)
        ELSE IF ~patch_ok THEN ToolErr(ToolError("InvalidPatch", NoError, <<>>), 1)
        ELSE IF ~apply_ok THEN ToolErr(ToolError("ApplyFailed", NoError, <<>>), 1)
        ELSE IF ~w.ok THEN ToolErr(ToolError("WriteFile", w.err.source, <<>>), 2)
        ELSE ToolOk(2)

\* The outcome of a tool call: Ok or the McpError, the number of inspect and
\* exec calls it engine_calls, whether it went on to snapshot_after, and the
\* content of a successful result.
ToolOutcome(ok, error, engine_calls, snapshot) ==
    [ok |-> ok, error |-> error, engine_calls |-> engine_calls, snapshot |-> snapshot,
     content |-> <<>>]

\* The tail of write, patch and bash: snapshot_after, its error through map_error.
then_snapshot(engine_calls, snapshot_error) ==
    IF snapshot_error # NoError
    THEN ToolOutcome(FALSE, map_error(snapshot_error), engine_calls, TRUE)
    ELSE ToolOutcome(TRUE, NoMcpError, engine_calls, TRUE)

\* The handlers sandbox_ports, read, write, patch, bash, ls, glob and grep.
tool_call(input) ==
    LET sandbox == input.sandbox
        m == resolve_sandbox_metadata(sandbox)
        first == input.answers[1]
        in_sandbox ==
            CASE input.tool = "read" -> read_in_sandbox(first, input.offset, input.limit)
              [] input.tool = "write" -> write_in_sandbox(first)
              [] input.tool = "patch" ->
                    patch_in_sandbox(input.answers, input.pattern_ok, input.apply_ok)
              [] input.tool = "bash" -> bash_in_sandbox(first)
              [] input.tool = "ls" -> ls_in_sandbox(first)
              [] input.tool = "glob" -> glob_in_sandbox(first, input.pattern_ok)
              [] input.tool = "grep" -> grep_in_sandbox(first)
              [] OTHER -> ToolOk(0)
        mapped ==
            CASE input.tool = "read" -> map_read_error(sandbox, in_sandbox.err)
              [] input.tool = "write" -> map_write_error(sandbox, in_sandbox.err)
              [] input.tool = "patch" -> map_patch_error(sandbox, in_sandbox.err)
              [] input.tool = "bash" -> map_bash_error(sandbox, in_sandbox.err)
              [] input.tool = "ls" -> map_ls_error(sandbox, in_sandbox.err)
              [] input.tool = "glob" -> map_glob_tool_error(sandbox, in_sandbox.err)
              [] input.tool = "grep" -> map_grep_error(sandbox, in_sandbox.err)
              [] OTHER -> NoMcpError
    IN  IF ~m.ok THEN ToolOutcome(FALSE, map_error(m.err), 0, FALSE)
        ELSE IF input.tool = "sandbox-ports"
        THEN LET i == inspect_container(first) IN
             IF ~i.ok THEN ToolOutcome(FALSE, map_sandbox_error(sandbox, i.err), 1, FALSE)
             ELSE ToolOutcome(TRUE, NoMcpError, 1, FALSE)
        ELSE IF ~in_sandbox.ok THEN ToolOutcome(FALSE, mapped, in_sandbox.engine_calls, FALSE)
        ELSE IF input.tool \in {"write", "patch", "bash"}
        THEN LET after == then_snapshot(in_sandbox.engine_calls, input.snapshot_error) IN
             IF after.ok /\ input.tool = "bash"
             THEN [after EXCEPT !.content = in_sandbox.output]
             ELSE after
        ELSE [ToolOutcome(TRUE, NoMcpError, in_sandbox.engine_calls, FALSE)
                 EXCEPT !.content = in_sandbox.output]

Tools == {"sandbox-ports", "read", "write", "patch", "bash", "ls", "glob", "grep"}
ToolSandboxes == { <<"a">>, <<"A", " ", "b">>, <<"-">> }

EngineAnswers ==
    { EngineAnswer(0, 0, <<"text">>, <<>>),
      EngineAnswer(404, 0, <<>>, <<>>),
      EngineAnswer(500, 0, <<>>, <<>>),
      EngineAnswer(0, 1, <<>>, <<>>),
      EngineAnswer(0, 1, <<>>, <<"cat: ", "No such file or directory", "\n">>),
      EngineAnswer(0, 2, <<"Permission denied">>, <<" ">>),
      EngineAnswer(0, 2, <<>>, <<"grep: ", "Unmatched", " [">>) }

ToolInputs ==
    { [tool |-> tool, sandbox |-> sandbox, answers |-> <<first, second>>,
       pattern_ok |-> flags[1], apply_ok |-> flags[2], snapshot_error |-> snapshot_error,
       offset |-> None, limit |-> None] :
          tool \in Tools, sandbox \in ToolSandboxes,
          first \in EngineAnswers, second \in EngineAnswers,
          flags \in {<<TRUE, TRUE>>, <<FALSE, TRUE>>, <<TRUE, FALSE>>},
          snapshot_error \in {NoError, ScmError("Commit"),
                              ComputeError("ContainerDownload", 404)} }

ToolCall ==
    /\ probe.fn \in Tools
    /\ probe.outcome = None
    /\ probe' = [probe EXCEPT !.outcome = Some(tool_call(probe.input))]
    /\ UNCHANGED <<refs, head, containers, next_id, calls, issued, created,
                   removal_faulted, commits, index, worktree, snaps, locked, snap_issued>>

ToolInit ==
    /\ ProviderStart
    /\ \E input \in ToolInputs : probe = Probe(input.tool, input)

ToolSpec == ToolInit /\ [][ToolCall]_vars

\* The five classifying tools called on a command that exited non-zero, with
\* every stderr of at most MaxMsgLen pieces and every stdout of at most one.
RECURSIVE Messages(_)
Messages(n) ==
    IF n = 0 THEN { <<>> }
    ELSE Messages(n - 1)
         \cup { Append(t, piece) : t \in Messages(n - 1),
                piece \in {" ", "No such file or directory", "Permission denied",
                           "Unmatched", "Invalid", "x"} }

ClassifyTools == {"read", "write", "ls", "glob", "grep"}

ClassifyInputs ==
    { [tool |-> tool, sandbox |-> <<"a">>,
       answers |-> <<EngineAnswer(0, exit_code, stdout, stderr),
                     EngineAnswer(0, 0, <<>>, <<>>)>>,
       pattern_ok |-> TRUE, apply_ok |-> TRUE, snapshot_error |-> NoError,
       offset |-> None, limit |-> None] :
          tool \in ClassifyTools, exit_code \in {1, 2},
          stdout \in Messages(1), stderr \in Messages(MaxMsgLen) }

\* One tool call: the error of the tool's *_in_sandbox function and the
\* McpError the handler answers with.
Classify ==
    /\ probe.fn = "classify"
    /\ probe.outcome = None
    /\ LET input == probe.input
           first == input.answers[1]
           in_sandbox ==
               CASE input.tool = "read" -> read_in_sandbox(first, input.offset, input.limit)
                 [] input.tool = "write" -> write_in_sandbox(first)
                 [] input.tool = "ls" -> ls_in_sandbox(first)
                 [] input.tool = "glob" -> glob_in_sandbox(first, input.pattern_ok)
                 [] input.tool = "grep" -> grep_in_sandbox(first)
           call == tool_call(input)
       IN  probe' = [probe EXCEPT !.outcome =
                        Some([ok |-> call.ok, tool_error |-> in_sandbox.err,
                              error |-> call.error])]
    /\ UNCHANGED <<refs, head, containers, next_id, calls, issued, created,
                   removal_faulted, commits, index, worktree, snaps, locked, snap_issued>>

ClassifyInit ==
    /\ ProviderStart
    /\ \E input \in ClassifyInputs : probe = Probe("classify", input)

ClassifySpec == ClassifyInit /\ [][Classify]_vars

\* DockerCompute::exec called on its own, with the exit codes inspect_exec
\* may report: none, ordinary ones, and the ends of i32 and of i64.
ExecRawExitCodes ==
    { None, Some(I64(0, 0)), Some(I64(0, 1)), Some(I64(0, 137)), Some(I64(0, I32_MAX)),
      Some(I64(-1, I32_MAX)), Some(I64(-1, 0)), Some(I64(1, 0)), Some(I64(-2, I32_MAX)),
      Some(I64(I32_MAX, I32_MAX)), Some(I64(-I32_MAX - 1, 0)) }

ExecInputs ==
    { [status |-> status, raw |-> raw, stdout |-> stdout, stderr |-> stderr] :
          status \in {0, 404, 500}, raw \in ExecRawExitCodes,
          stdout \in Outputs, stderr \in Outputs }

Exec ==
    /\ probe.fn = "exec"
    /\ probe.outcome = None
    /\ probe' = [probe EXCEPT !.outcome =
                    Some(DockerCompute_exec(probe.input.status, probe.input.raw,
                                            probe.input.stdout, probe.input.stderr))]
    /\ UNCHANGED <<refs, head, containers, next_id, calls, issued, created,
                   removal_faulted, commits, index, worktree, snaps, locked, snap_issued>>

ExecInit ==
    /\ ProviderStart
    /\ \E input \in ExecInputs : probe = Probe("exec", input)

ExecSpec == ExecInit /\ [][Exec]_vars

\* extract_tar called on its own: archives of two entries, the first with any
\* path of at most MaxPathLen components.
RECURSIVE PathParts(_)
PathParts(n) ==
    IF n = 0 THEN { <<>> }
    ELSE PathParts(n - 1)
         \cup { Append(t, part) : t \in PathParts(n - 1),
                part \in {"src", ".git", ".gitignore", "lib"} }

HostDest == Path(TRUE, <<"tmp", "staging">>)

TarInputs ==
    { <<Path(absolute, parts), second>> :
          absolute \in BOOLEAN, parts \in PathParts(MaxPathLen),
          second \in { Path(FALSE, <<"src">>), Path(FALSE, <<"src", "README.md">>),
                       Path(FALSE, <<"src", ".git", "HEAD">>) } }

ExtractTar ==
    /\ probe.fn = "extract_tar"
    /\ probe.outcome = None
    /\ probe' = [probe EXCEPT !.outcome = Some(extract_tar(HostDest, probe.input))]
    /\ UNCHANGED <<refs, head, containers, next_id, calls, issued, created,
                   removal_faulted, commits, index, worktree, snaps, locked, snap_issued>>

ExtractInit ==
    /\ ProviderStart
    /\ \E tar \in TarInputs : probe = Probe("extract_tar", tar)

ExtractSpec == ExtractInit /\ [][ExtractTar]_vars

\* sandbox-ports after create: build_forwarded_ports on a configuration that
\* validate_ports accepts, then forwarded_ports_from_inspection on what the
\* container was given, with or without the image's own env and a port the
\* image publishes by itself.
RECURSIVE PortLists(_)
PortLists(n) ==
    IF n = 0 THEN { <<>> }
    ELSE PortLists(n - 1)
         \cup { Append(ports, ForwardedPort(name, target)) :
                    ports \in PortLists(n - 1),
                    name \in { <<"a">>, <<"A", "-", "b">>, <<"b">>, <<"a", "!", "B">> },
                    target \in {80, 8080} }

PortsInputs ==
    { [config |-> SandboxConfig(None, ports), seeds |-> seeds, extras |-> extras] :
          ports \in { p \in PortLists(MaxPorts) : validate_ports(p) },
          seeds \in SeedChoices, extras \in BOOLEAN }

SandboxPorts ==
    /\ probe.fn = "sandbox-ports"
    /\ probe.outcome = None
    /\ LET built == build_forwarded_ports(probe.input.config, probe.input.seeds, {})
           inspection ==
               [env |-> IF probe.input.extras
                        THEN <<<<"PATH", "=", "/bin">>, <<"PORT", "=", "9000">>>> \o built.env
                        ELSE built.env,
                port_bindings |->
                    IF probe.input.extras
                    THEN built.port_bindings
                         \cup {[key |-> <<"9000", "/tcp">>, host_ip |-> "0.0.0.0",
                                host_port |-> "9000"]}
                    ELSE built.port_bindings]
       IN  probe' = [probe EXCEPT !.outcome =
                        Some([ok |-> built.ok, forwarded |-> built.forwarded,
                              mappings |-> forwarded_ports_from_inspection(inspection)])]
    /\ UNCHANGED <<refs, head, containers, next_id, calls, issued, created,
                   removal_faulted, commits, index, worktree, snaps, locked, snap_issued>>

PortsInit ==
    /\ ProviderStart
    /\ \E input \in PortsInputs : probe = Probe("sandbox-ports", input)

PortsSpec == PortsInit /\ [][SandboxPorts]_vars

\* create_branch and delete_branch called on their own, on the repositories
\* of the snapshot engine and on one whose HEAD is unborn while a sandbox
\* branch exists.
BranchRepos ==
    Repos \cup
    { [refs |-> [n \in {DevRef, BranchRef(branch_name_for_slug(<<"a">>))} |-> 1],
       head |-> [ref |-> Some(MainRef), oid |-> None],
       commits |-> InitCommits, files |-> {ReadmeA, GitDir}] }

BranchSlugs == { <<"a">>, <<"b">> }

BranchCall(fn, fault) ==
    /\ issued < MaxScmCalls
    /\ issued' = issued + 1
    /\ probe.fn \in {"", "create_branch", "delete_branch"}
    /\ \E slug \in BranchSlugs :
        LET result == IF fn = "create_branch"
                      THEN GitScm_create_branch(refs, slug, fault)
                      ELSE GitScm_delete_branch(refs, slug, fault)
        IN  /\ refs' = result.refs
            /\ probe' = [fn |-> fn,
                         input |-> [slug |-> slug, fault |-> fault],
                         outcome |-> Some([ok |-> result.ok, err |-> result.err,
                                           name |-> IF result.ok /\ fn = "create_branch"
                                                    THEN Some(branch_name_for_slug(slug))
                                                    ELSE None])]
    /\ UNCHANGED <<head, containers, next_id, calls, created, removal_faulted,
                   commits, index, worktree, snaps, locked, snap_issued>>

CreateBranch == \E fault \in {"", "head", "branch"} : BranchCall("create_branch", fault)

DeleteBranch == \E fault \in {"", "delete"} : BranchCall("delete_branch", fault)

BranchInit ==
    /\ \E repo \in BranchRepos :
        /\ refs = repo.refs
        /\ head = repo.head
        /\ commits = repo.commits
        /\ worktree = repo.files
        /\ index = add_directory_to_tree(repo.files)
    /\ containers = {}
    /\ next_id = 1
    /\ calls = [c \in Calls |-> IdleCall]
    /\ issued = 0
    /\ created = {}
    /\ removal_faulted = FALSE
    /\ snaps = [w \in Writers |-> IdleSnap]
    /\ locked = {}
    /\ snap_issued = 0
    /\ probe = NoProbe

BranchNext == CreateBranch \/ DeleteBranch

BranchSpec == BranchInit /\ [][BranchNext]_vars

\* slugify and slugify_name called on their own, and create called with the
\* same name: every name of at most MaxNameLen characters, and names around
\* the length limit of a slug.
RECURSIVE ShortNames(_)
ShortNames(n) ==
    IF n = 0 THEN { <<>> }
    ELSE ShortNames(n - 1)
         \cup { Append(t, ch) : t \in ShortNames(n - 1), ch \in {"a", "B", "1", "-", "!"} }

LongNames ==
    { [i \in 1..MAX_SLUG_LENGTH |-> "a"],
      [i \in 1..(MAX_SLUG_LENGTH + 1) |-> "a"],
      [i \in 1..(MAX_SLUG_LENGTH + 1) |-> IF i % 2 = 0 THEN "!" ELSE "B"],
      [i \in 1..(MAX_SLUG_LENGTH + 3) |-> IF i % 2 = 0 THEN "!" ELSE "B"] }

SlugInputs == ShortNames(MaxNameLen) \cup LongNames

SlugifyName ==
    /\ probe.fn = "slugify_name"
    /\ probe.outcome = None
    /\ probe' = [probe EXCEPT !.outcome =
                    Some([slug |-> slugify(probe.input.name),
                          result |-> slugify_name(probe.input.name)])]
    /\ UNCHANGED <<refs, head, containers, next_id, calls, issued, created,
                   removal_faulted, commits, index, worktree, snaps, locked, snap_issued>>

SlugInit ==
    /\ ProviderStart
    /\ \E name \in SlugInputs : probe = Probe("slugify_name", [name |-> name])

SlugNext ==
    \/ SlugifyName
    \/ \E c \in Calls :
        \/ CreateBeginNamed(c, 1, 1, {probe.input.name})
        \/ EnsureImageDone(c)
        \/ BuildPorts(c)
        \/ CreateContainer(c)
        \/ StartContainer(c)
        \/ UploadDone(c)
        \/ ExecDone(c)
        \/ UndoContainer(c)

SlugSpec == SlugInit /\ [][SlugNext]_vars

\* The container name each entry point derives for a sandbox name, in a
\* repository whose directory is dir and whose .litterbox.toml sets
\* project.slug to file_slug (None: not set).
default_config_slug(dir) ==
    LET slug == slugify(dir) IN
    IF slug = <<>> THEN None ELSE Some(slug)

\* load_final: merge(defaults, file).project.slug
load_final_slug(dir, file_slug) ==
    IF IsSome(file_slug) THEN file_slug ELSE default_config_slug(dir)

\* ThreadSafeScm::repo_prefix of a handle opened with prefix_override.
repo_prefix_with(prefix_override, dir) ==
    IF IsSome(prefix_override) THEN prefix_override[1] ELSE repo_prefix_from_path(dir)

\* mcp.rs: build_provider_with_config (sandbox-create) and
\* resolve_sandbox_metadata (the file tools) open the SCM with
\* open_with_prefix(config.project.slug).
mcp_container_name(name, dir, file_slug) ==
    container_name_for_slug(repo_prefix_with(load_final_slug(dir, file_slug), dir),
                            slugify(name))

\* main.rs: repo_prefix() opens the SCM with ThreadSafeScm::open, which has
\* no override, and metadata_for_slug builds the name.
cli_container_name(name, dir) ==
    container_name_for_slug(repo_prefix_with(None, dir), slugify(name))

NameInputs ==
    { [name |-> name, dir |-> dir, file_slug |-> file_slug] :
          name \in { n \in Names : slugify_name(n).ok },
          dir \in ShortNames(MaxNameLen),
          file_slug \in { None, Some(<<"a">>), Some(<<"B", "1">>), Some(<<"b", "-", "a">>) } }

DeriveContainerNames ==
    /\ probe.fn = "container_name"
    /\ probe.outcome = None
    /\ LET input == probe.input IN
       probe' = [probe EXCEPT !.outcome =
                    Some([sandbox_create |->
                              mcp_container_name(input.name, input.dir, input.file_slug),
                          tools |-> mcp_container_name(input.name, input.dir, input.file_slug),
                          cli |-> cli_container_name(input.name, input.dir)])]
    /\ UNCHANGED <<refs, head, containers, next_id, calls, issued, created,
                   removal_faulted, commits, index, worktree, snaps, locked, snap_issued>>

NameInit ==
    /\ ProviderStart
    /\ \E input \in NameInputs : probe = Probe("container_name", input)

NameSpec == NameInit /\ [][DeriveContainerNames]_vars

\* A mutating tool called with a sandbox argument: resolve_sandbox_metadata
\* finds the container, snapshot_after opens the handle whose snapshot ref
\* the call advances.
tool_snapshot_target(sandbox) ==
    [container_id |-> resolve_sandbox_metadata(sandbox).metadata.container_id,
     snapshot_ref |-> snapshot_branch_ref(ThreadSafeScm_for_sandbox(sandbox))]

SnapshotTargetInputs ==
    { <<first, second>> : first, second \in { n \in ShortNames(MaxNameLen) : slugify_name(n).ok } }

SnapshotTargets ==
    /\ probe.fn = "snapshot_target"
    /\ probe.outcome = None
    /\ probe' = [probe EXCEPT !.outcome =
                    Some(<<tool_snapshot_target(probe.input[1]),
                           tool_snapshot_target(probe.input[2])>>)]
    /\ UNCHANGED <<refs, head, containers, next_id, calls, issued, created,
                   removal_faulted, commits, index, worktree, snaps, locked, snap_issued>>

SnapshotTargetInit ==
    /\ ProviderStart
    /\ \E input \in SnapshotTargetInputs : probe = Probe("snapshot_target", input)

SnapshotTargetSpec == SnapshotTargetInit /\ [][SnapshotTargets]_vars

\* read_in_sandbox and grep_in_sandbox called on their own, with the texts
\* the container may print: every text of at most MaxTextLen characters.
RECURSIVE Texts(_)
Texts(n) ==
    IF n = 0 THEN { <<>> }
    ELSE Texts(n - 1) \cup { Append(t, ch) : t \in Texts(n - 1), ch \in {"a", "\r", "\n"} }

ReadInputs ==
    { [answer |-> answer, offset |-> offset, limit |-> limit] :
          answer \in { EngineAnswer(0, 0, text, <<>>) : text \in Texts(MaxTextLen) }
                     \cup { EngineAnswer(404, 0, <<>>, <<>>),
                            EngineAnswer(0, 1, <<>>, <<"cat: ", "No such file or directory">>) },
          offset \in { None, Some(0), Some(1), Some(2), Some(USIZE_MAX) },
          limit \in { None, Some(0), Some(1), Some(2), Some(USIZE_MAX) } }

GrepInputs ==
    { [answer |-> EngineAnswer(status, exit_code, stdout, stderr)] :
          status \in {0, 404}, exit_code \in {0, 1, 2, -1},
          stdout \in Texts(MaxTextLen),
          stderr \in { <<>>, <<" ">>, <<"\n", " ">>, <<"grep: ", "Unmatched", " [">>,
                       <<"grep: ", "No such file or directory", "\n">> } }

ReadInSandbox ==
    /\ probe.fn = "read_in_sandbox"
    /\ probe.outcome = None
    /\ probe' = [probe EXCEPT !.outcome =
                    Some(read_in_sandbox(probe.input.answer, probe.input.offset,
                                         probe.input.limit))]
    /\ UNCHANGED <<refs, head, containers, next_id, calls, issued, created,
                   removal_faulted, commits, index, worktree, snaps, locked, snap_issued>>

GrepInSandbox ==
    /\ probe.fn = "grep_in_sandbox"
    /\ probe.outcome = None
    /\ probe' = [probe EXCEPT !.outcome = Some(grep_in_sandbox(probe.input.answer))]
    /\ UNCHANGED <<refs, head, containers, next_id, calls, issued, created,
                   removal_faulted, commits, index, worktree, snaps, locked, snap_issued>>

TextInit ==
    /\ ProviderStart
    /\ \/ \E input \in ReadInputs : probe = Probe("read_in_sandbox", input)
       \/ \E input \in GrepInputs : probe = Probe("grep_in_sandbox", input)

TextNext == ReadInSandbox \/ GrepInSandbox

TextSpec == TextInit /\ [][TextNext]_vars

(***************************************************************************)
(* Compute verbs and CLI commands (src/src/compute/mod.rs,                 *)
(* src/src/main.rs).  A command runs from its first line to its exit code. *)
(***************************************************************************)
\* The engine's answer to pause, unpause and remove: 0 when it does what it
\* was asked, otherwise the HTTP status (404 no such container, 409 the
\* container is not in a state that allows it, or the fault `status`).
Engine_pause_container(cs, id, status) ==
    IF Lookup(cs, id) = {} THEN [status |-> 404, containers |-> cs]
    ELSE IF \E k \in Lookup(cs, id) : k.state # "running"
    THEN [status |-> 409, containers |-> cs]
    ELSE IF status # 0 THEN [status |-> status, containers |-> cs]
    ELSE [status |-> 0,
          containers |-> {IF k \in Lookup(cs, id) THEN [k EXCEPT !.state = "paused"] ELSE k
                          : k \in cs}]

Engine_unpause_container(cs, id, status) ==
    IF Lookup(cs, id) = {} THEN [status |-> 404, containers |-> cs]
    ELSE IF \E k \in Lookup(cs, id) : k.state # "paused"
    THEN [status |-> 409, containers |-> cs]
    ELSE IF status # 0 THEN [status |-> status, containers |-> cs]
    ELSE [status |-> 0,
          containers |-> {IF k \in Lookup(cs, id) THEN [k EXCEPT !.state = "running"] ELSE k
                          : k \in cs}]

Engine_remove_container(cs, id, status) ==
    IF Lookup(cs, id) = {} THEN 404 ELSE status

\* Variant: 404 is swallowed as well as 409.
DockerCompute_pause_container_lenient(cs, container_id, status) ==
    LET answer == Engine_pause_container(cs, container_id, status) IN
    IF answer.status \in {0, 404, 409}
    THEN [ok |-> TRUE, containers |-> answer.containers, err |-> NoError]
    ELSE [ok |-> FALSE, containers |-> cs, err |-> ComputeError("ContainerPause", answer.status)]

DockerCompute_pause_container(cs, container_id, status) ==
    LET answer == Engine_pause_container(cs, container_id, status) IN
    IF answer.status \in {0, 409}
    THEN [ok |-> TRUE, containers |-> answer.containers, err |-> NoError]
    ELSE [ok |-> FALSE, containers |-> cs, err |-> ComputeError("ContainerPause", answer.status)]

DockerCompute_resume_container(cs, container_id, status) ==
    LET answer == Engine_unpause_container(cs, container_id, status) IN
    IF answer.status \in {0, 409}
    THEN [ok |-> TRUE, containers |-> answer.containers, err |-> NoError]
    ELSE [ok |-> FALSE, containers |-> cs, err |-> ComputeError("ContainerResume", answer.status)]

\* What inspect_container tells handle_delete: the HTTP status of the failed
\* call, or state.running and state.paused (a paused container is running).
Engine_inspect_container(cs, id, status) ==
    IF Lookup(cs, id) = {} THEN [status |-> 404, running |-> FALSE, paused |-> FALSE]
    ELSE IF status # 0 THEN [status |-> status, running |-> FALSE, paused |-> FALSE]
    ELSE [status |-> 0,
          running |-> \E k \in Lookup(cs, id) : k.state \in {"running", "paused"},
          paused |-> \E k \in Lookup(cs, id) : k.state = "paused"]

\* What a command leaves behind: its exit code, the error it reported, the
\* engine's answer to the compute verb (-1: the verb was not called) and
\* whether the compute verb returned Ok; for shell, the ExecutionResult.
CliOutcome(exit_code, err, answer, verb_ok) ==
    [exit_code |-> exit_code, err |-> err, answer |-> answer, verb_ok |-> verb_ok,
     result |-> None]

report_error(error) == CliOutcome(1, error, -1, FALSE)

CliNames == { <<"a">>, <<"b">>, <<"-">> }
CliStatuses == {0, 409, 500}

CliCommand ==
    /\ issued < MaxCliCalls
    /\ issued' = issued + 1
    /\ probe.fn \in {"", "cli"}
    /\ UNCHANGED <<head, next_id, calls, created, removal_faulted, commits, index, worktree, snaps, locked, snap_issued>>

\* handle_pause with a name, and provider.pause behind it.
HandlePause ==
    \E name \in CliNames, status \in CliStatuses :
        LET s == slugify_name(name)
            container == container_name_for_slug(ThreadSafeScm_repo_prefix, s.slug)
            verb == DockerCompute_pause_container(containers, container, status)
            answer == Engine_pause_container(containers, container, status).status
            input == [command |-> "pause", name |-> name, force |-> FALSE]
        IN  /\ CliCommand
            /\ IF ~s.ok
               THEN /\ probe' = [fn |-> "cli", input |-> input,
                                 outcome |-> Some(report_error(s.err))]
                    /\ UNCHANGED <<refs, containers>>
               ELSE /\ containers' = verb.containers
                    /\ probe' = [fn |-> "cli", input |-> input,
                                 outcome |-> Some(CliOutcome(IF verb.ok THEN 0 ELSE 1,
                                                             verb.err, answer, verb.ok))]
                    /\ UNCHANGED refs

\* handle_resume, and provider.resume behind it.
HandleResume ==
    \E name \in CliNames, status \in CliStatuses :
        LET s == slugify_name(name)
            container == container_name_for_slug(ThreadSafeScm_repo_prefix, s.slug)
            verb == DockerCompute_resume_container(containers, container, status)
            answer == Engine_unpause_container(containers, container, status).status
            input == [command |-> "resume", name |-> name, force |-> FALSE]
        IN  /\ CliCommand
            /\ IF ~s.ok
               THEN /\ probe' = [fn |-> "cli", input |-> input,
                                 outcome |-> Some(report_error(s.err))]
                    /\ UNCHANGED <<refs, containers>>
               ELSE /\ containers' = verb.containers
                    /\ probe' = [fn |-> "cli", input |-> input,
                                 outcome |-> Some(CliOutcome(IF verb.ok THEN 0 ELSE 1,
                                                             verb.err, answer, verb.ok))]
                    /\ UNCHANGED refs

\* Variant: --force is not looked at.
delete_refused_forced(running, paused, force) == running /\ ~paused

\* The refusal of handle_delete: `running && !paused && !force`.
delete_refused(running, paused, force) == running /\ ~paused /\ ~force

\* handle_delete: inspect, the refusal, then provider.delete (delete_container
\* and delete_branch).
HandleDelete ==
    \E name \in CliNames, force \in BOOLEAN, inspect_status \in {0, 500},
       status \in CliStatuses, fault \in {"", "delete"} :
        LET s == slugify_name(name)
            container == container_name_for_slug(ThreadSafeScm_repo_prefix, s.slug)
            info == Engine_inspect_container(containers, container, inspect_status)
            metadata == metadata_for_slug(ThreadSafeScm_repo_prefix, s.slug)
            dc == DockerCompute_delete_container(containers, metadata.container_id, status)
            answer == Engine_remove_container(containers, metadata.container_id, status)
            db == GitScm_delete_branch(refs, metadata.name, fault)
            input == [command |-> "delete", name |-> name, force |-> force]
            leave(outcome) ==
                /\ probe' = [fn |-> "cli", input |-> input, outcome |-> Some(outcome)]
                /\ UNCHANGED <<refs, containers>>
        IN  /\ CliCommand
            /\ IF ~s.ok THEN leave(report_error(s.err))
               ELSE IF info.status \notin {0, 404}
               THEN leave(report_error(ComputeError("ContainerInspect", info.status)))
               ELSE IF info.status = 0 /\ delete_refused(info.running, info.paused, force)
               THEN leave(report_error(NoError))
               ELSE IF ~dc.ok THEN leave(CliOutcome(1, dc.err, answer, FALSE))
               ELSE /\ containers' = dc.containers
                    /\ refs' = db.refs
                    /\ probe' = [fn |-> "cli", input |-> input,
                                 outcome |-> Some(CliOutcome(IF db.ok THEN 0 ELSE 1,
                                                             db.err, answer, TRUE))]

\* Variant: the exit code is cut to its low eight bits.
shell_exit_code_truncated(exit_code) == exit_code % 256

\* The tail of handle_shell: 0, the code as a u8, or 1 when it does not fit.
shell_exit_code(exit_code) ==
    IF exit_code = 0 THEN 0
    ELSE IF exit_code >= 0 /\ exit_code <= U8_MAX THEN exit_code
    ELSE 1

ShellExitCodes ==
    { None, Some(I64(0, 0)), Some(I64(0, 1)), Some(I64(0, 7)), Some(I64(0, U8_MAX)),
      Some(I64(0, U8_MAX + 1)), Some(I64(-1, I32_MAX)), Some(I64(0, I32_MAX)) }

\* handle_shell: provider.shell (DockerCompute::exec), then the exit code.
HandleShell ==
    \E name \in CliNames, status \in {0, 500}, raw \in ShellExitCodes,
       stderr \in Outputs :
        LET s == slugify_name(name)
            metadata == metadata_for_slug(ThreadSafeScm_repo_prefix, s.slug)
            answer == IF Lookup(containers, metadata.container_id) = {} THEN 404
                      ELSE IF \E k \in Lookup(containers, metadata.container_id) :
                                  k.state # "running"
                      THEN 409
                      ELSE status
            result == [exit_code |-> ExecExitCode(raw), stdout |-> "", stderr |-> stderr]
            input == [command |-> "shell", name |-> name, force |-> FALSE]
        IN  /\ CliCommand
            /\ probe' = [fn |-> "cli", input |-> input, outcome |->
                   Some(IF ~s.ok THEN report_error(s.err)
                        ELSE IF answer # 0
                        THEN [report_error(ComputeError("ContainerExec", answer))
                                 EXCEPT !.answer = answer]
                        ELSE [CliOutcome(shell_exit_code(result.exit_code), NoError, 0, TRUE)
                                 EXCEPT !.result = Some(result)])]
            /\ UNCHANGED <<refs, containers>>

\* A sandbox "a" as an earlier create, pause or stop left it, with or
\* without its branch, and a second branch without a container.
CliContainers ==
    { {} } \cup
    { {[id |-> ContainerId(1),
        name |-> container_name_for_slug(ThreadSafeScm_repo_prefix, <<"a">>),
        state |-> state, env |-> <<>>, port_bindings |-> {}, has_src |-> TRUE]} :
      state \in {"created", "running", "paused", "exited"} }

CliInit ==
    /\ head = [ref |-> Some(MainRef), oid |-> None]
    /\ \E branches \in SUBSET {<<"a">>, <<"b">>} :
        refs = [n \in {MainRef, DevRef}
                      \cup {BranchRef(branch_name_for_slug(slug)) : slug \in branches} |->
                   IF n = DevRef THEN 1 ELSE 2]
    /\ containers \in CliContainers
    /\ next_id = 2
    /\ calls = [c \in Calls |-> IdleCall]
    /\ issued = 0
    /\ created = {}
    /\ removal_faulted = FALSE
    /\ commits = InitCommits
    /\ index = add_directory_to_tree({ReadmeB})
    /\ worktree = {ReadmeB, GitDir}
    /\ snaps = [w \in Writers |-> IdleSnap]
    /\ locked = {}
    /\ snap_issued = 0
    /\ probe = NoProbe

CliNext == HandlePause \/ HandleResume \/ HandleDelete \/ HandleShell

CliSpec == CliInit /\ [][CliNext]_vars

(***************************************************************************)
(* Properties of the provider                                              *)
(***************************************************************************)
\* The step in which call c returns to its caller.
Returns(c) ==
    /\ calls'[c].pc = "done"
    /\ calls[c].pc # "done" \/ calls'[c].seq # calls[c].seq

CreateReturns(c) == Returns(c) /\ calls'[c].op = "create"
DeleteReturns(c) == Returns(c) /\ calls'[c].op = "delete"

SandboxBranchRef(slug) == BranchRef(branch_name_for_slug(slug))
SandboxContainers(cs, slug) ==
    {k \in cs : k.name = container_name_for_slug(ThreadSafeScm_repo_prefix, slug)}

\* C1: when create returns an error from a step that runs after the sandbox
\* branch was created (and the undo of the branch did not itself fail), the
\* branch litterbox/<slug> does not exist.
C1_FailedCreateLeavesNoBranch ==
    [][\A c \in Calls :
         (/\ CreateReturns(c)
          /\ ~calls'[c].result.ok
          /\ calls'[c].branch_created
          /\ ~calls'[c].undo_failed)
         => SandboxBranchRef(calls'[c].slug) \notin DOMAIN refs']_vars

\* C2: when create returns an error from a step at or after the creation of
\* the container (and no undo step itself failed), no container named
\* litterbox-<repo_prefix>-<slug> exists.
C2_FailedCreateLeavesNoContainer ==
    [][\A c \in Calls :
         (/\ CreateReturns(c)
          /\ ~calls'[c].result.ok
          /\ calls'[c].container_created
          /\ ~calls'[c].undo_failed)
         => SandboxContainers(containers', calls'[c].slug) = {}]_vars

\* C3: after create returns Ok the branch litterbox/<slug> exists at the HEAD
\* commit and exactly one container has the derived name, and it is running;
\* after delete returns Ok neither the container of the metadata nor the
\* branch exists; a delete whose container removal fails changes no branch.
C3_CreateAndDeletePair ==
    [][\A c \in Calls :
         /\ (CreateReturns(c) /\ calls'[c].result.ok)
            => /\ SandboxBranchRef(calls'[c].slug) \in DOMAIN refs'
               /\ Some(refs'[SandboxBranchRef(calls'[c].slug)]) = head_commit_optional'
               /\ Cardinality(SandboxContainers(containers', calls'[c].slug)) = 1
               /\ \A k \in SandboxContainers(containers', calls'[c].slug) :
                      k.state = "running"
         /\ (DeleteReturns(c) /\ calls'[c].result.ok)
            => /\ Lookup(containers', calls'[c].metadata.container_id) = {}
               /\ SandboxBranchRef(calls'[c].metadata.name) \notin DOMAIN refs'
         /\ (calls'[c].op = "delete" /\
             (calls'[c].pc = "delete_container" \/ calls'[c].failed_step = "delete_container"))
            => refs' = refs]_vars

\* C3 witness: a delete of a sandbox that create had returned has succeeded,
\* and the container and the branch are gone.
C3_Witness ==
    \E c \in Calls :
        /\ calls[c].pc = "done" /\ calls[c].op = "delete" /\ calls[c].result.ok
        /\ calls[c].metadata \in created
        /\ Lookup(containers, calls[c].metadata.container_id) = {}
        /\ SandboxBranchRef(calls[c].metadata.name) \notin DOMAIN refs

\* C4: delete is idempotent under "already gone": unless the engine or the
\* SCM reports a fault, delete returns Ok, also when the container, the
\* branch or both are already absent.
C4_DeleteIdempotent ==
    [][\A c \in Calls :
         (DeleteReturns(c) /\ calls'[c].result.err.kind \notin {"Compute", "Scm"})
         => calls'[c].result.ok]_vars

\* C4 (amended): unless the engine or the SCM reports a fault, delete returns
\* Ok exactly when the branch existed, also when the container was already
\* absent; when the branch is already absent it returns SandboxNotFound; in
\* both cases the container of the metadata is gone afterwards.
C4_DeleteNotFoundWhenBranchGone ==
    [][\A c \in Calls :
         (DeleteReturns(c) /\ calls'[c].result.err.kind \notin {"Compute", "Scm"})
         => LET md == calls'[c].metadata IN
            /\ calls'[c].result.ok <=> (SandboxBranchRef(md.name) \in DOMAIN refs)
            /\ ~calls'[c].result.ok => calls'[c].result.err = SandboxNotFound(md.name)
            /\ Lookup(containers', md.container_id) = {}
            /\ SandboxBranchRef(md.name) \notin DOMAIN refs']_vars

\* C4 witness: the second of two deletes of a created sandbox has returned
\* SandboxNotFound: the metadata was returned by a create, and neither the
\* container nor the branch is there.
C4_Witness ==
    \E c \in Calls :
        /\ calls[c].pc = "done" /\ calls[c].op = "delete"
        /\ calls[c].metadata \in created
        /\ ~calls[c].result.ok
        /\ calls[c].result.err = SandboxNotFound(calls[c].metadata.name)
        /\ Lookup(containers, calls[c].metadata.container_id) = {}

\* C6: the metadata of a successful create has name = slug(name),
\* branch_name = litterbox/<slug>, container_id = litterbox-<repo_prefix>-<slug>,
\* status Active and one forwarded-port mapping per configured port.
C6_CreateMetadata ==
    [][\A c \in Calls :
         (CreateReturns(c) /\ calls'[c].result.ok)
         => LET md == calls'[c].result.metadata
                slug == slugify(calls'[c].name)
            IN  /\ md.name = slug
                /\ md.branch_name = <<"litterbox/">> \o slug
                /\ md.container_id =
                       <<"litterbox-">> \o ThreadSafeScm_repo_prefix \o <<"-">> \o slug
                /\ md.status = "Active"
                /\ Len(md.forwarded_ports) = Len(calls'[c].config.forwarded_ports)]_vars

\* C7: a setup command that exits with a non-zero code c makes create return
\* SetupCommandFailed{c, stderr} with the command's stderr, or its stdout when
\* stderr is empty; without a setup command, or when it exits 0, create does
\* not fail at this step.
C7_SetupCommandFailed ==
    [][\A c \in Calls :
         CreateReturns(c) =>
           LET call == calls'[c] IN
           /\ (IsSome(call.exec_result) /\ call.exec_result[1].exit_code # 0)
              => /\ ~call.result.ok
                 /\ call.result.err.kind = "SetupCommandFailed"
                 /\ call.result.err.exit_code = call.exec_result[1].exit_code
                 /\ call.result.err.stderr =
                        (IF call.exec_result[1].stderr = ""
                         THEN call.exec_result[1].stdout
                         ELSE call.exec_result[1].stderr)
           /\ (IsSome(call.exec_result) /\ call.exec_result[1].exit_code = 0)
              => call.result.ok
           /\ (~call.result.ok /\ call.result.err.kind = "SetupCommandFailed")
              => /\ IsSome(call.config.setup_command)
                 /\ IsSome(call.exec_result)
                 /\ call.exec_result[1].exit_code # 0]_vars

\* C7 witness: create returned SetupCommandFailed carrying the stdout of a
\* setup command that wrote nothing to stderr.
C7_Witness ==
    \E c \in Calls :
        /\ calls[c].pc = "done" /\ calls[c].op = "create"
        /\ calls[c].result.err.kind = "SetupCommandFailed"
        /\ calls[c].result.err.exit_code = 7
        /\ calls[c].exec_result[1].stderr = ""
        /\ calls[c].result.err.stderr = "text"

\* C8: a failed create returns the error of the first step that failed, a
\* container name conflict being reported as SandboxExists; a failing undo
\* step neither replaces that error nor makes the call succeed.
C8_OriginalErrorReturned ==
    [][\A c \in Calls :
         (CreateReturns(c) /\ calls'[c].failed_step # "")
         => /\ ~calls'[c].result.ok
            /\ calls'[c].result.err =
                 (IF calls'[c].error.kind = "Compute"
                     /\ calls'[c].error.variant = "ContainerProvision"
                     /\ calls'[c].error.status = 409
                     /\ calls'[c].failed_step = "create_container"
                  THEN SandboxExists(calls'[c].slug)
                  ELSE calls'[c].error)]_vars

\* C8 witness: the undo of a failed create failed in turn (the container is
\* still there) and the call returned the error of the failed step.
C8_Witness ==
    \E c \in Calls :
        /\ calls[c].pc = "done" /\ calls[c].op = "create"
        /\ calls[c].failed_step \in {"upload", "exec", "setup"}
        /\ calls[c].undo_failed
        /\ Lookup(containers, calls[c].container_id) # {}
        /\ calls[c].result.err = calls[c].error

\* C5: whenever no provider call is in progress (and no removal has hit a
\* fault), for every slug the branch litterbox/<slug> exists exactly when the
\* container litterbox-<repo_prefix>-<slug> exists.
C5_BranchAndContainerPaired ==
    (removal_faulted = FALSE /\ \A c \in Calls : ~InProgress(c))
    => \A slug \in ValidSlugs :
          (SandboxBranchRef(slug) \in DOMAIN refs)
          <=> (SandboxContainers(containers, slug) # {})

(***************************************************************************)
(* Properties of the snapshot engine                                       *)
(***************************************************************************)
SnapStep(w) == snaps'[w] # snaps[w]

\* The step in which snapshot call w returns to its caller.
SnapReturns(w) ==
    /\ snaps'[w].pc = "done"
    /\ snaps[w].pc # "done" \/ snaps'[w].seq # snaps[w].seq

\* The commit HEAD resolves to under the refs r, if any.
HeadCommit(r) == IF IsSome(head.ref) THEN find_reference(r, head.ref[1]) ELSE head.oid

\* C9: no step of commit_snapshot_from_staging, whatever HEAD points to and
\* whatever the outcome, changes HEAD, the commit HEAD resolves to, the
\* index or the working tree.
C9_SnapshotKeepsHeadIndexWorktree ==
    [][\A w \in Writers :
         SnapStep(w) =>
             /\ head' = head
             /\ HeadCommit(refs') = HeadCommit(refs)
             /\ index' = index
             /\ worktree' = worktree]_vars

\* C10: when commit_snapshot_from_staging returns an error, the snapshot ref
\* has the value it had when the call began: the same commit id, or it still
\* does not exist.
C10_FailedSnapshotKeepsRef ==
    [][\A w \in Writers :
         SnapReturns(w) /\ ~snaps'[w].result.ok =>
             find_reference(refs', snapshot_branch_ref(snaps'[w].snapshot_branch))
                 = snaps'[w].ref_at_begin]_vars

\* A call has failed on the ref update after all its retries, and has put
\* back a ref that existed when it began.
C10_Witness ==
    \E w \in Writers :
        /\ snaps[w].pc = "done"
        /\ ~snaps[w].result.ok
        /\ snaps[w].failed_step = "update"
        /\ snaps[w].retries = max_retries
        /\ snaps[w].restored
        /\ IsSome(snaps[w].ref_at_begin)

\* The call of writer w got as far as comparing the tree with the parent's.
TreeCompared(snap) == snap.failed_step \notin {"parent", "backup", "tree_build", "tree_write"}

\* C11: a call whose staging tree equals the parent's tree returns None,
\* creates no commit and leaves the snapshot ref as it was; and a call that
\* repeats the staging contents of the caller's previous call, which returned
\* Some(id), returns None with the ref still at id.
C11_UnchangedTreeIsNoOp ==
    [][\A w \in Writers :
         SnapReturns(w) =>
             LET snap == snaps'[w]
                 ref_now == find_reference(refs', snapshot_branch_ref(snap.snapshot_branch))
             IN  /\ ( /\ TreeCompared(snap)
                      /\ IsSome(snap.parent)
                      /\ commits[snap.parent[1]].tree = add_directory_to_tree(snap.staging) )
                    => /\ snap.result = SnapOk(None)
                       /\ snap.oid = None
                       /\ commits' = commits
                       /\ ref_now = snap.ref_at_begin
                 /\ (IsSome(snap.repeats) /\ snap.result.ok)
                    => /\ snap.result.oid = None
                       /\ snap.oid = None
                       /\ ref_now = snap.repeats]_vars

\* The second of two calls with the same staging contents has returned None
\* after the first returned a new commit.
C11_Witness ==
    \E w \in Writers :
        /\ snaps[w].pc = "done"
        /\ IsSome(snaps[w].repeats)
        /\ snaps[w].result = SnapOk(None)
        /\ find_reference(refs, snapshot_branch_ref(snaps[w].snapshot_branch)) = snaps[w].repeats

\* The parent the new commit of a call must have: the snapshot ref's tip at
\* the start of the call, else the HEAD commit, else none.
ExpectedParent(snap, r) ==
    IF IsSome(snap.ref_at_begin) THEN snap.ref_at_begin ELSE HeadCommit(r)

\* C12: the commit a snapshot call creates has as its only parent the tip of
\* the snapshot ref at the start of the call, or the HEAD commit when the ref
\* does not exist, or no parent when HEAD is unborn; a call that returns
\* Some(id) leaves the ref at id; and the next call of the same caller on the
\* same ref takes id as its parent.
C12_SnapshotParentChain ==
    [][\A w \in Writers :
         /\ (snaps[w].pc = "commit" /\ snaps'[w].pc = "update")
            => /\ Len(commits') = Len(commits) + 1
               /\ snaps'[w].oid = Some(Len(commits'))
               /\ commits'[Len(commits')].parents = ExpectedParent(snaps[w], refs)
               /\ Len(commits'[Len(commits')].parents) <= 1
         /\ (SnapReturns(w) /\ snaps'[w].result.ok /\ IsSome(snaps'[w].result.oid))
            => /\ find_reference(refs', snapshot_branch_ref(snaps'[w].snapshot_branch))
                    = snaps'[w].result.oid
               /\ commits[snaps'[w].result.oid[1]].parents = ExpectedParent(snaps'[w], refs)
         /\ ( /\ snaps[w].pc = "done" /\ snaps'[w].pc = "backup"
              /\ snaps[w].result.ok /\ IsSome(snaps[w].result.oid)
              /\ snaps'[w].snapshot_branch = snaps[w].snapshot_branch )
            => snaps'[w].parent = snaps[w].result.oid]_vars

\* A second snapshot has been committed on top of the first: its parent is
\* the earlier snapshot, not the HEAD commit.
C12_Witness ==
    \E w \in Writers :
        /\ snaps[w].pc = "done"
        /\ snaps[w].result.ok
        /\ IsSome(snaps[w].result.oid)
        /\ IsSome(snaps[w].ref_at_begin)
        /\ snaps[w].ref_at_begin[1] > Len(InitCommits)
        /\ commits[snaps[w].result.oid[1]].parents = snaps[w].ref_at_begin

\* The ref the specification gives the snapshots of a sandbox.
SnapshotRefOfSlug(slug) == <<"refs/heads/", "litterbox-snapshots-">> \o slug

\* C13: the snapshot a tool call triggers for sandbox S writes
\* refs/heads/litterbox-snapshots-<slug(S)>, a ref other than the sandbox
\* branch refs/heads/litterbox/<slug(S)>, and the sandbox branch keeps the
\* commit it was created at.
C13_SandboxBranchKeepsCommit ==
    [][\A w \in Writers, sandbox \in SandboxArgs :
         ( /\ SnapStep(w)
           /\ snaps'[w].snapshot_branch = ThreadSafeScm_for_sandbox(sandbox)
           /\ SandboxBranchRef(slugify(sandbox)) \in DOMAIN refs )
         => /\ snapshot_branch_ref(snaps'[w].snapshot_branch)
                 = SnapshotRefOfSlug(slugify(sandbox))
            /\ snapshot_branch_ref(snaps'[w].snapshot_branch)
                 # SandboxBranchRef(slugify(sandbox))
            /\ find_reference(refs', SandboxBranchRef(slugify(sandbox)))
                 = find_reference(refs, SandboxBranchRef(slugify(sandbox)))]_vars

\* A tool call's snapshot: taken on the handle of the call's sandbox.
ToolSnapshot(snap) == IsSome(snap.snapshot_branch) /\ snap.trigger # NoTrigger

\* The tool call changed /src: the downloaded tree differs from the tree of
\* the snapshot before it.
ChangedSrc(snap, r) ==
    LET before == ExpectedParent(snap, r) IN
    IsSome(before) => commits[before[1]].tree # add_directory_to_tree(snap.staging)

\* C14: of the successful tool calls on one sandbox, one at a time, each
\* that changed /src adds exactly one commit to the snapshot ref, on top of
\* the commit of the call before it, with the message "write: <path>",
\* "patch: <path>" or "bash: <command>" of the call; and no step of such a
\* call changes HEAD or the commit HEAD resolves to.
C14_OneCommitPerToolCall ==
    [][\A w \in Writers :
         (SnapStep(w) /\ ToolSnapshot(snaps'[w])) =>
             LET snap == snaps'[w] IN
             /\ head' = head
             /\ HeadCommit(refs') = HeadCommit(refs)
             /\ \/ commits' = commits
                \/ snaps[w].pc = "commit" /\ Len(commits') = Len(commits) + 1
             /\ (SnapReturns(w) /\ snap.result.ok /\ ChangedSrc(snap, refs))
                => /\ IsSome(snap.result.oid)
                   /\ snap.result.oid = Some(Len(commits'))
                   /\ commits'[Len(commits')].parents = ExpectedParent(snap, refs)
                   /\ commits'[Len(commits')].tree = add_directory_to_tree(snap.staging)
                   /\ commits'[Len(commits')].message =
                          ( IF snap.trigger.kind = "Write" THEN "write: "
                            ELSE IF snap.trigger.kind = "Patch" THEN "patch: "
                            ELSE "bash: " ) \o snap.trigger.arg
                   /\ find_reference(refs', snapshot_branch_ref(snap.snapshot_branch))
                          = snap.result.oid]_vars

\* The commits on the parent chain of commit id, id included.
RECURSIVE ParentChain(_)
ParentChain(id) ==
    {id} \cup UNION {ParentChain(p) : p \in {commits[id].parents[i] :
                                                 i \in 1..Len(commits[id].parents)}}

\* C15: when the overlapping snapshot calls on one snapshot ref have all
\* returned, every commit a call returned as Some(id) is on the parent chain
\* of the ref's tip, and of two such commits the one produced first is an
\* ancestor of the other.
C15_OverlappingSnapshotsOnChain ==
    (\A w \in Writers : ~SnapInProgress(w)) =>
        \A w \in Writers :
            (snaps[w].pc = "done" /\ snaps[w].result.ok /\ IsSome(snaps[w].result.oid)) =>
                LET tip == find_reference(refs, snapshot_branch_ref(snaps[w].snapshot_branch))
                IN  /\ IsSome(tip)
                    /\ snaps[w].result.oid[1] \in ParentChain(tip[1])
                    /\ \A v \in Writers :
                        ( /\ snaps[v].pc = "done" /\ snaps[v].result.ok
                          /\ IsSome(snaps[v].result.oid)
                          /\ snaps[v].snapshot_branch = snaps[w].snapshot_branch
                          /\ snaps[v].result.oid[1] < snaps[w].result.oid[1] )
                        => snaps[v].result.oid[1] \in ParentChain(snaps[w].result.oid[1])

\* One turn of the ref-update loop of call w, when at most `attempts` turns
\* are allowed: the turn is the retries+1-th; it creates no commit; the loop
\* goes round again only after Locked, with a sleep of 10 ms times the number
\* of the turn that failed; without the lock the turn ends the loop at once,
\* with the ref set or with the error; and the last allowed turn, when it
\* still finds the lock, ends the loop with the error.
RetryLoopTurn(w, attempts) ==
    (snaps[w].pc = "update" /\ SnapStep(w)) =>
        LET attempt == snaps[w].retries + 1
            is_locked == snapshot_branch_ref(snaps[w].snapshot_branch) \in locked
        IN  /\ attempt <= attempts
            /\ commits' = commits
            /\ snaps'[w].pc \in {"update", "restore", "done"}
            /\ snaps'[w].pc = "update"
               => /\ is_locked
                  /\ snaps'[w].retries = attempt
                  /\ snaps'[w].slept = 10 * attempt
            /\ ~is_locked => snaps'[w].pc \in {"restore", "done"}
            /\ (is_locked /\ attempt = attempts)
               => /\ snaps'[w].pc = "restore"
                  /\ snaps'[w].error = ScmError("Commit")
            /\ snaps'[w].pc = "done"
               => /\ snaps'[w].result = SnapOk(snaps[w].oid)
                  /\ ~is_locked

\* A call that left the loop with an error returns that error.
RetryLoopError(w) ==
    (SnapReturns(w) /\ snaps'[w].failed_step = "update")
        => snaps'[w].result = SnapErr(ScmError("Commit"))

\* The loop of every call ends: the call returns.
RetryLoopEnds == \A w \in Writers : (snaps[w].pc = "update") ~> (snaps[w].pc = "done")

\* C16 as stated: within one call the ref update is attempted at most 5
\* times, is retried only after Locked with a wait of 10 ms times the attempt
\* number, fails at once on any other error, returns an error when the last
\* attempt is still locked, ends in every case and creates no second commit.
C16_AtMostFiveAttempts ==
    /\ [][\A w \in Writers : RetryLoopTurn(w, 5) /\ RetryLoopError(w)]_vars
    /\ RetryLoopEnds

\* C16, amended: the ref update is attempted at most 6 times, the first
\* attempt and up to 5 retries.
C16_AtMostSixAttempts ==
    /\ [][\A w \in Writers : RetryLoopTurn(w, 6) /\ RetryLoopError(w)]_vars
    /\ RetryLoopEnds

\* The sixth attempt has found the ref still locked after sleeps of 10 to
\* 50 ms, and the call is about to restore the ref and return the error.
C16_Witness ==
    \E w \in Writers :
        /\ snaps[w].pc = "restore"
        /\ snaps[w].failed_step = "update"
        /\ snaps[w].retries = 5
        /\ snaps[w].slept = 50
        /\ snapshot_branch_ref(snaps[w].snapshot_branch) \in locked

\* C17: a call allocate_host_port(start, end) with start <= end returns; a
\* port it returns lies in start..end and was bindable when probed; it
\* probes at most min(32, end-start+1) candidates, all of start..end; it
\* returns a Config error when every probed candidate is in use; and with
\* end < start it returns a Config error without probing.
C17_AllocateHostPort ==
    (probe.fn = "allocate_host_port" /\ IsSome(probe.outcome)) =>
        LET start == probe.input.range_start
            end == probe.input.range_end
            busy == probe.input.busy.from..probe.input.busy.to
            outcome == probe.outcome[1]
            result == outcome.result
            probed == {result.probed[i] : i \in 1..Len(result.probed)}
        IN  /\ ~outcome.panicked
            /\ result.ok \/ result.err.kind = "Config"
            /\ end < start => ~result.ok /\ probed = {}
            /\ start <= end
               => /\ Len(result.probed) <= Min(32, end - start + 1)
                  /\ probed \subseteq start..end
                  /\ result.ok
                     => /\ result.port \in start..end
                        /\ result.port \notin busy
                        /\ result.port = result.probed[Len(result.probed)]
                        /\ probed \ {result.port} \subseteq busy
                  /\ probed \subseteq busy => ~result.ok

\* The step in which create call c gets its port mappings from
\* build_forwarded_ports, for a config that validate_ports accepts.
PortsBuilt(c) ==
    /\ calls[c].pc = "ports"
    /\ calls'[c].pc = "create_container"
    /\ validate_ports(calls[c].config.forwarded_ports)

\* C18: the mappings one create builds for a valid config with two or more
\* forwarded ports have pairwise distinct env_var values and pairwise
\* distinct host_port values, each host_port within 3000..8000.
C18_MappingsUnique ==
    [][\A c \in Calls :
         (PortsBuilt(c) /\ Len(calls[c].config.forwarded_ports) >= 2) =>
             LET m == calls'[c].forwarded_ports IN
             /\ Len(m) = Len(calls[c].config.forwarded_ports)
             /\ \A i, j \in 1..Len(m) :
                    i < j => /\ m[i].env_var # m[j].env_var
                             /\ m[i].host_port # m[j].host_port
             /\ \A i \in 1..Len(m) :
                    m[i].host_port \in DEFAULT_PORT_RANGE_START..DEFAULT_PORT_RANGE_END]_vars

\* C19: after a successful create with a config that validate_ports accepts,
\* the container has, for every forwarded port of the config, the env entry
\* LITTERBOX_FWD_PORT_<NAME>=N and the port binding <target>/tcp ->
\* 0.0.0.0:N, N being the host_port of the port's mapping in the metadata
\* that create returned.
C19_EnvAndBindingPerPort ==
    [][\A c \in Calls :
         ( /\ CreateReturns(c)
           /\ calls'[c].result.ok
           /\ validate_ports(calls'[c].config.forwarded_ports) )
         => LET ports == calls'[c].config.forwarded_ports
                metadata == calls'[c].result.metadata
            IN  /\ Len(metadata.forwarded_ports) = Len(ports)
                /\ \A k \in Lookup(containers', metadata.container_id) :
                   \A i \in 1..Len(ports) :
                       LET N == metadata.forwarded_ports[i].host_port
                           NAME == [j \in 1..Len(slugify(ports[i].name)) |->
                                       to_ascii_uppercase(
                                           IF slugify(ports[i].name)[j] = "-" THEN "_"
                                           ELSE slugify(ports[i].name)[j])]
                       IN  /\ \E e \in 1..Len(k.env) :
                               k.env[e] = <<"LITTERBOX_FWD_PORT_">> \o NAME
                                              \o <<"=", ToString(N)>>
                           /\ [key |-> <<ToString(ports[i].target), "/tcp">>,
                               host_ip |-> "0.0.0.0",
                               host_port |-> ToString(N)] \in k.port_bindings
                /\ Lookup(containers', metadata.container_id) # {}]_vars

\* C20: when the engine answers 404 to an inspect or exec that a tool call
\* (sandbox-ports, read, write, patch, bash, ls, glob, grep) issued, the call
\* returns the invalid_params error "Sandbox '<name>' not found.".
C20_Engine404IsSandboxNotFound ==
    (probe.fn \in Tools /\ IsSome(probe.outcome)) =>
        LET input == probe.input
            outcome == probe.outcome[1]
        IN  (\E k \in 1..outcome.engine_calls : input.answers[k].status = 404)
            => /\ ~outcome.ok
               /\ outcome.error.code = "invalid_params"
               /\ outcome.error.message = <<"Sandbox '">> \o input.sandbox \o <<"' not found.">>

(***************************************************************************)
(* Properties of the dispatcher and of the functions called on their own   *)
(***************************************************************************)
\* The sandbox-create handler's answer for a create that returned `result`.
sandbox_create(result) ==
    IF result.ok THEN NoMcpError ELSE map_error(result.err)

UserErrors == {"InvalidName", "SandboxExists", "SandboxNotFound", "SetupCommandFailed"}
OperationalErrors == {"Scm", "Compute", "Config", "Io"}

\* C21: the dispatcher answers a failed create with invalid_params when the
\* error is a user error (InvalidName, SandboxExists, SandboxNotFound,
\* SetupCommandFailed) and with internal_error when it is an operational
\* error (Scm, Compute, Config, Io).
C21_UserAndOperationalErrors ==
    \A c \in Calls :
        (calls[c].pc = "done" /\ calls[c].op = "create" /\ ~calls[c].result.ok)
        => LET kind == calls[c].result.err.kind
               answer == sandbox_create(calls[c].result)
           IN  /\ kind \in UserErrors \cup OperationalErrors
               /\ kind \in UserErrors => answer.code = "invalid_params"
               /\ kind \in OperationalErrors => answer.code = "internal_error"

\* The step of a CLI command that called a compute verb.
VerbCalled == probe'.fn = "cli" /\ issued' = issued + 1 /\ probe'.outcome[1].answer # -1

\* C22: pause_container, resume_container and delete_container each return
\* Ok when the engine answers 409 and when it answers 404, so each succeeds
\* when repeated and when the container is missing.
C22_VerbsSwallow409And404 ==
    [][VerbCalled =>
         (probe'.outcome[1].answer \in {404, 409} => probe'.outcome[1].verb_ok)]_vars

\* The step of `delete <name>` for a name with a valid slug whose inspect did
\* not fail (it answered, or the container is absent).
DeleteCommand ==
    /\ probe'.fn = "cli" /\ issued' = issued + 1
    /\ probe'.input.command = "delete"
    /\ probe'.outcome[1].err.kind # "InvalidName"
    /\ probe'.outcome[1].err.variant # "ContainerInspect"

CliContainer(cs, name) ==
    Lookup(cs, container_name_for_slug(ThreadSafeScm_repo_prefix, slugify(name)))

\* C26: `delete <name>` without --force on a container that is running and
\* not paused exits with 1 and removes neither the container nor the branch;
\* with --force, or when the container is paused, not running or absent, it
\* calls delete_container and, when that returns Ok, delete_branch: after
\* exit code 0 neither the container nor the branch exists.
C26_DeleteRefusesActive ==
    [][DeleteCommand =>
         LET name == probe'.input.name
             outcome == probe'.outcome[1]
             active == \E k \in CliContainer(containers, name) : k.state = "running"
             branch == BranchRef(branch_name_for_slug(slugify(name)))
         IN  IF active /\ ~probe'.input.force
             THEN /\ outcome.exit_code = 1
                  /\ outcome.answer = -1
                  /\ containers' = containers
                  /\ refs' = refs
             ELSE /\ outcome.answer # -1
                  /\ outcome.verb_ok => /\ CliContainer(containers', name) = {}
                                        /\ branch \notin DOMAIN refs' \/ outcome.err.kind = "Scm"
                  /\ outcome.exit_code = 0
                     <=> (outcome.verb_ok /\ branch \in DOMAIN refs /\ outcome.err = NoError)
                  /\ outcome.exit_code = 0
                     => (CliContainer(containers', name) = {} /\ branch \notin DOMAIN refs')]_vars

\* C26 witness: delete without --force was refused and the running container
\* and its branch are still there.
C26_Witness ==
    /\ probe.fn = "cli" /\ probe.input.command = "delete" /\ ~probe.input.force
    /\ probe.outcome[1].exit_code = 1 /\ probe.outcome[1].answer = -1
    /\ probe.outcome[1].err = NoError
    /\ \E k \in CliContainer(containers, probe.input.name) : k.state = "running"
    /\ BranchRef(branch_name_for_slug(slugify(probe.input.name))) \in DOMAIN refs

\* The step of the shell command.
ShellCommand ==
    probe'.fn = "cli" /\ issued' = issued + 1 /\ probe'.input.command = "shell"

\* C27: the shell command exits with the contained command's exit code c as
\* a u8: 0 when c = 0, c when 1 <= c <= 255, 1 when c is negative or greater
\* than 255; when the name is invalid or exec fails it exits with 1.
C27_ShellExitCode ==
    [][ShellCommand =>
         LET outcome == probe'.outcome[1] IN
         IF IsSome(outcome.result)
         THEN LET c == outcome.result[1].exit_code IN
              /\ c = 0 => outcome.exit_code = 0
              /\ (c >= 1 /\ c <= 255) => outcome.exit_code = c
              /\ (c < 0 \/ c > 255) => outcome.exit_code = 1
         ELSE /\ outcome.err # NoError
              /\ outcome.exit_code = 1]_vars

\* C27 witness: the contained command ended with 256, which is no u8, and
\* the shell command exited with 1.
C27_Witness ==
    /\ probe.fn = "cli" /\ probe.input.command = "shell"
    /\ IsSome(probe.outcome[1].result)
    /\ probe.outcome[1].result[1].exit_code = 256
    /\ probe.outcome[1].exit_code = 1

\* The newline-terminated pieces of a text, in order: the [from, to] spans of
\* its lines, `to` being the line's newline or the end of the text.
LineStarts(text) == {1} \cup {i + 1 : i \in {j \in 1..(Len(text) - 1) : text[j] = "\n"}}

LineEnd(text, from) ==
    IF \E i \in from..Len(text) : text[i] = "\n"
    THEN CHOOSE i \in from..Len(text) : text[i] = "\n" /\ \A j \in from..(i - 1) : text[j] # "\n"
    ELSE Len(text)

\* The k-th line start (k from 0) of a text that is not empty.
NthLineStart(text, k) ==
    CHOOSE from \in LineStarts(text) :
        Cardinality({g \in LineStarts(text) : g < from}) = k

LineCount(text) == IF text = <<>> THEN 0 ELSE Cardinality(LineStarts(text))

\* Line k of the text with its newline.
LineOf(text, k) == SubSeq(text, NthLineStart(text, k), LineEnd(text, NthLineStart(text, k)))

\* Line k without its line ending ("\n", and the "\r"s before it).
BareLine(text, k) ==
    LET line == LineOf(text, k)
        body == {i \in 1..Len(line) : line[i] \notin {"\r", "\n"}}
        last == IF body = {} THEN 0 ELSE CHOOSE i \in body : \A j \in body : j <= i
    IN  SubSeq(line, 1, last)

RECURSIVE NonEmptyLines(_, _)
NonEmptyLines(text, k) ==
    IF k >= LineCount(text) THEN <<>>
    ELSE (IF BareLine(text, k) = <<>> THEN <<>> ELSE <<BareLine(text, k)>>)
         \o NonEmptyLines(text, k + 1)

GrepRan == probe.fn = "grep_in_sandbox" /\ IsSome(probe.outcome) /\ probe.input.answer.status = 0

GrepClassified(r) ==
    ~r.ok /\ r.err.variant \in {"NotFound", "PermissionDenied", "InvalidPattern", "Failed"}

\* C23 as stated: grep_in_sandbox returns the non-empty output lines when
\* grep exits 0, the empty list when grep exits 1 with empty stderr, and a
\* classified error for every other result.
C23_GrepResults ==
    GrepRan =>
        LET a == probe.input.answer
            r == probe.outcome[1]
        IN  IF a.exit_code = 0 THEN r.ok /\ r.output = NonEmptyLines(a.stdout, 0)
            ELSE IF a.exit_code = 1 /\ a.stderr = <<>> THEN r.ok /\ r.output = <<>>
            ELSE GrepClassified(r)

Blank(text) == \A i \in 1..Len(text) : text[i] \in {" ", "\n"}

\* C23 amended: the empty list is returned when grep exits 1 and stderr is
\* empty or holds only whitespace; every other result with a non-zero exit
\* code is a classified error.
C23_GrepResultsBlankStderr ==
    GrepRan =>
        LET a == probe.input.answer
            r == probe.outcome[1]
        IN  IF a.exit_code = 0 THEN r.ok /\ r.output = NonEmptyLines(a.stdout, 0)
            ELSE IF a.exit_code = 1 /\ Blank(a.stderr) THEN r.ok /\ r.output = <<>>
            ELSE GrepClassified(r)

\* C23 witness: grep exited 1 and wrote only whitespace to stderr; the call
\* returned the empty list.
C23_Witness ==
    /\ GrepRan
    /\ probe.input.answer.exit_code = 1
    /\ probe.input.answer.stderr = <<"\n", " ">>
    /\ probe.outcome[1].ok /\ probe.outcome[1].output = <<>>

ReadRan ==
    /\ probe.fn = "read_in_sandbox" /\ IsSome(probe.outcome)
    /\ probe.input.answer.status = 0 /\ probe.input.answer.exit_code = 0

\* The lines k, k + 1, ... of the text below `end`, one after the other.
RECURSIVE LinesBetween(_, _, _)
LinesBetween(text, k, end) ==
    IF k >= end \/ k >= LineCount(text) THEN <<>>
    ELSE LineOf(text, k) \o LinesBetween(text, k + 1, end)

\* C29: read returns the lines with 0-based index i, offset <= i < offset +
\* limit, each with its trailing newline; offset defaults to 0 and limit to
\* unbounded; the result is empty when limit = 0 or offset is at or past the
\* number of lines; offset + limit is taken without overflow.
C29_ReadSlice ==
    ReadRan =>
        LET text == probe.input.answer.stdout
            r == probe.outcome[1]
            offset == IF IsSome(probe.input.offset) THEN probe.input.offset[1] ELSE 0
            unbounded == ~IsSome(probe.input.limit)
            end == IF unbounded THEN LineCount(text) ELSE offset + probe.input.limit[1]
        IN  /\ r.ok
            /\ r.output = LinesBetween(text, offset, end)
            /\ (probe.input.limit = Some(0) \/ offset >= LineCount(text)) => r.output = <<>>

\* C29 witness: offset 1 and limit usize::MAX, whose sum does not fit a
\* usize, returned the second line of a two-line text.
C29_Witness ==
    /\ ReadRan
    /\ probe.input.offset = Some(1) /\ probe.input.limit = Some(USIZE_MAX)
    /\ probe.input.answer.stdout = <<"a", "\n", "a", "\n">>
    /\ probe.outcome[1].output = <<"a", "\n">>

SlugifyRan == probe.fn = "slugify_name" /\ IsSome(probe.outcome)

SlugChars == {"a", "b", "0", "1", "-"}

\* C24: for every input s, slugify(s) is empty or has 1 to 63 characters of
\* [a-z0-9-], does not start or end with "-" and has no two "-" in a row.
C24_SlugShape ==
    SlugifyRan =>
        LET slug == probe.outcome[1].slug IN
        \/ slug = <<>>
        \/ /\ Len(slug) >= 1 /\ Len(slug) <= 63
           /\ \A i \in 1..Len(slug) : slug[i] \in SlugChars
           /\ slug[1] # "-" /\ slug[Len(slug)] # "-"
           /\ \A i \in 1..(Len(slug) - 1) : ~(slug[i] = "-" /\ slug[i + 1] = "-")

\* The step in which call c is made as a create.
CreateCalled(c) == calls'[c].op = "create" /\ calls'[c].seq = issued + 1 /\ issued' = issued + 1

\* C25: slugify_name(name) fails, with InvalidName, exactly when
\* slugify(name) is empty or longer than 63 characters; create with such a
\* name returns InvalidName at once: no branch is created, no image is
\* pulled, no port is probed, no container is created.
C25_InvalidNameBeforeSideEffects ==
    [][/\ (probe'.fn = "slugify_name" /\ IsSome(probe'.outcome))
          => LET slug == probe'.outcome[1].slug
                 result == probe'.outcome[1].result
             IN  /\ ~result.ok <=> (slug = <<>> \/ Len(slug) > 63)
                 /\ ~result.ok => result.err = InvalidName(probe'.input.name)
       /\ \A c \in Calls :
            (CreateCalled(c) /\ (slugify(calls'[c].name) = <<>>
                                 \/ Len(slugify(calls'[c].name)) > 63))
            => /\ calls'[c].pc = "done"
               /\ ~calls'[c].result.ok
               /\ calls'[c].result.err = InvalidName(calls'[c].name)
               /\ refs' = refs
               /\ containers' = containers /\ next_id' = next_id
               /\ ~calls'[c].branch_created /\ ~calls'[c].container_created
               /\ calls'[c].forwarded_ports = <<>> /\ calls'[c].port_bindings = {}]_vars

\* C25 witness: create with a name whose slug has 64 characters has returned
\* InvalidName; there is no sandbox branch and no container.
C25_Witness ==
    \E c \in Calls :
        /\ calls[c].pc = "done" /\ calls[c].op = "create"
        /\ Len(slugify(calls[c].name)) = 64
        /\ calls[c].result.err = InvalidName(calls[c].name)
        /\ DOMAIN refs = {MainRef, DevRef}
        /\ containers = {}

\* A tool call on a sandbox with a valid name has returned.
ToolRan ==
    /\ probe.fn \in Tools /\ IsSome(probe.outcome)
    /\ slugify_name(probe.input.sandbox).ok

CommandFailed(answer) == answer.status # 0 \/ answer.exit_code # 0

\* The mutating command of a write or patch call failed.
MutationFailed(input) ==
    \/ input.tool = "write" /\ CommandFailed(input.answers[1])
    \/ /\ input.tool = "patch"
       /\ \/ CommandFailed(input.answers[1])
          \/ ~input.pattern_ok
          \/ ~input.apply_ok
          \/ CommandFailed(input.answers[2])

\* C30: a snapshot is taken only after the mutating command succeeded.  When
\* write or patch fails (non-zero exit code, patch that does not parse or
\* apply, exec error) the call fails without download and snapshot commit and
\* no ref or commit changes; a bash command that ran and exited non-zero is
\* no failure: the snapshot is taken and the call returns the
\* ExecutionResult (unless the snapshot itself fails).
C30_SnapshotOnlyAfterSuccess ==
    [][(ToolRan' /\ ~IsSome(probe.outcome)) =>
         LET input == probe'.input
             outcome == probe'.outcome[1]
         IN  /\ outcome.snapshot => (input.tool \in {"write", "patch", "bash"}
                                     /\ ~MutationFailed(input)
                                     /\ input.answers[1].status = 0)
             /\ MutationFailed(input) => /\ ~outcome.ok /\ ~outcome.snapshot
                                         /\ refs' = refs /\ commits' = commits
             /\ (input.tool = "bash" /\ input.answers[1].status = 0)
                => /\ outcome.snapshot
                   /\ outcome.ok <=> input.snapshot_error = NoError
                   /\ outcome.ok =>
                        outcome.content = ExecutionResult(input.answers[1].exit_code,
                                                          input.answers[1].stdout,
                                                          input.answers[1].stderr)]_vars

\* C30 witness: a bash command exited with 2, the snapshot was taken and the
\* call returned the ExecutionResult with exit code 2.
C30_Witness ==
    /\ ToolRan /\ probe.input.tool = "bash"
    /\ probe.input.answers[1].status = 0 /\ probe.input.answers[1].exit_code = 2
    /\ probe.outcome[1].ok /\ probe.outcome[1].snapshot
    /\ probe.outcome[1].content.exit_code = 2

\* create_branch or delete_branch has just returned.
BranchVerbCalled(fn) ==
    /\ probe'.fn = fn /\ issued' = issued + 1 /\ IsSome(probe'.outcome)

BranchOf(slug) == BranchRef(branch_name_for_slug(slug))

\* C28: create_branch(slug) returns SandboxExists and leaves the target of the
\* existing branch unchanged when litterbox/<slug> exists, and otherwise
\* creates litterbox/<slug> at the HEAD commit and returns its name;
\* delete_branch(slug) removes litterbox/<slug> when present and returns
\* SandboxNotFound, changing no ref, when it is absent (libgit2 reporting no
\* failure of its own).
C28_BranchVerbs ==
    [][/\ (BranchVerbCalled("create_branch") /\ probe'.input.fault = "") =>
           LET slug == probe'.input.slug
               outcome == probe'.outcome[1]
           IN  IF BranchOf(slug) \in DOMAIN refs
               THEN outcome.err = SandboxExists(slug) /\ refs' = refs
               ELSE /\ outcome.ok
                    /\ outcome.name = Some(branch_name_for_slug(slug))
                    /\ IsSome(head_commit_optional)
                    /\ refs' = SetRef(refs, BranchOf(slug), head_commit_optional[1])
       /\ (BranchVerbCalled("delete_branch") /\ probe'.input.fault = "") =>
           LET slug == probe'.input.slug
               outcome == probe'.outcome[1]
           IN  IF BranchOf(slug) \in DOMAIN refs
               THEN outcome.ok /\ refs' = DropRef(refs, BranchOf(slug))
               ELSE outcome.err = SandboxNotFound(slug) /\ refs' = refs]_vars

\* C28 (amended): create_branch fails with the SCM error BranchCreate,
\* changing no ref, when HEAD does not resolve to a commit, whether or not
\* the branch exists; with a HEAD commit it returns SandboxExists and changes
\* no ref when litterbox/<slug> exists, and otherwise creates litterbox/<slug>
\* at the HEAD commit and returns its name, or fails with BranchCreate and
\* changes no ref when libgit2 fails.  delete_branch returns SandboxNotFound,
\* changing no ref, when the branch is absent; when present it removes the
\* branch, or fails with BranchDelete and changes no ref when libgit2 refuses.
C28_BranchVerbsWithHead ==
    [][/\ BranchVerbCalled("create_branch") =>
           LET slug == probe'.input.slug
               fault == probe'.input.fault
               outcome == probe'.outcome[1]
           IN  IF ~IsSome(head_commit_optional) \/ fault = "head"
               THEN outcome.err = ScmError("BranchCreate") /\ refs' = refs
               ELSE IF BranchOf(slug) \in DOMAIN refs
               THEN outcome.err = SandboxExists(slug) /\ refs' = refs
               ELSE IF fault = "branch"
               THEN outcome.err = ScmError("BranchCreate") /\ refs' = refs
               ELSE /\ outcome.ok
                    /\ outcome.name = Some(branch_name_for_slug(slug))
                    /\ refs' = SetRef(refs, BranchOf(slug), head_commit_optional[1])
       /\ BranchVerbCalled("delete_branch") =>
           LET slug == probe'.input.slug
               fault == probe'.input.fault
               outcome == probe'.outcome[1]
           IN  IF BranchOf(slug) \notin DOMAIN refs
               THEN outcome.err = SandboxNotFound(slug) /\ refs' = refs
               ELSE IF fault = "delete"
               THEN outcome.err = ScmError("BranchDelete") /\ refs' = refs
               ELSE outcome.ok /\ refs' = DropRef(refs, BranchOf(slug))]_vars

\* C28 witness: create_branch was refused with SandboxExists for a branch
\* that an earlier create_branch made at the HEAD commit.
C28_Witness ==
    /\ probe.fn = "create_branch" /\ IsSome(probe.outcome)
    /\ issued >= 2
    /\ probe.outcome[1].err = SandboxExists(probe.input.slug)
    /\ IsSome(head_commit_optional)
    /\ BranchOf(probe.input.slug) \in DOMAIN refs
    /\ refs[BranchOf(probe.input.slug)] = head_commit_optional[1]

(***************************************************************************)
(* Properties of the classification, of exec and of the remaining parts    *)
(***************************************************************************)
ClassifyRan == probe.fn = "classify" /\ IsSome(probe.outcome)

\* A text without its leading and trailing white space.
Stripped(text) ==
    LET solid == { i \in 1..Len(text) : text[i] \notin {" ", "\n"} } IN
    IF solid = {} THEN <<>>
    ELSE SubSeq(text, CHOOSE i \in solid : \A j \in solid : i <= j,
                      CHOOSE i \in solid : \A j \in solid : i >= j)

FailureMessage(answer) ==
    IF Stripped(answer.stderr) # <<>> THEN Stripped(answer.stderr) ELSE Stripped(answer.stdout)

Has(text, piece) == \E i \in 1..Len(text) : text[i] = piece

\* The variant, the message and the MCP code the rules give for a result.
Classified(tool, answer) ==
    LET message == FailureMessage(answer) IN
    IF Has(message, "No such file or directory")
    THEN [variant |-> "NotFound", code |-> "invalid_params", message |-> <<>>]
    ELSE IF Has(message, "Permission denied")
    THEN [variant |-> "PermissionDenied", code |-> "invalid_params", message |-> <<>>]
    ELSE IF tool = "grep" /\ (Has(message, "Unmatched") \/ Has(message, "Invalid"))
    THEN [variant |-> "InvalidPattern", code |-> "invalid_params", message |-> message]
    ELSE IF message = <<>>
    THEN [variant |-> "Failed", code |-> "internal_error",
          message |-> <<"exit code ", ToString(answer.exit_code)>>]
    ELSE [variant |-> "Failed", code |-> "internal_error", message |-> message]

FollowsRules ==
    LET input == probe.input
        outcome == probe.outcome[1]
        rule == Classified(input.tool, input.answers[1])
    IN  /\ ~outcome.ok
        /\ outcome.tool_error.variant = rule.variant
        /\ outcome.tool_error.message = rule.message
        /\ outcome.error.code = rule.code

\* C31: for read, write, ls, glob and grep a non-zero command result is
\* classified from the trimmed stderr (the trimmed stdout when stderr is
\* empty) by the first matching rule: NotFound, PermissionDenied, for grep
\* InvalidPattern, Failed with "exit code <n>" for an empty message, Failed
\* with the message; the first three become invalid_params, Failed becomes
\* internal_error.
C31_FailureClassification ==
    (ClassifyRan /\ probe.input.answers[1].exit_code # 0) => FollowsRules

GrepNoMatches(input) ==
    /\ input.tool = "grep"
    /\ input.answers[1].exit_code = 1
    /\ Stripped(input.answers[1].stderr) = <<>>

\* C31 (amended): the same, except that grep's exit code 1 with an empty
\* trimmed stderr is no failure at all: it is answered with an empty result
\* whatever stdout holds.
C31_FailureClassificationButNoMatches ==
    (ClassifyRan /\ probe.input.answers[1].exit_code # 0) =>
        IF GrepNoMatches(probe.input)
        THEN probe.outcome[1].ok
        ELSE FollowsRules

\* C31 witness: grep failed on a message holding both "Unmatched" and
\* "No such file or directory" and was classified NotFound, by the first rule.
C31_Witness ==
    /\ ClassifyRan /\ probe.input.tool = "grep"
    /\ Has(probe.input.answers[1].stderr, "Unmatched")
    /\ Has(probe.input.answers[1].stderr, "No such file or directory")
    /\ probe.outcome[1].tool_error.variant = "NotFound"
    /\ probe.outcome[1].error.code = "invalid_params"

ExecRan == probe.fn = "exec" /\ IsSome(probe.outcome) /\ probe.outcome[1].ok

FitsI32(v) == v.high \in {-1, 0}

\* C32: exec returns the exit code the post-exec inspect reports; when the
\* inspect reports none, or one that does not fit an i32, the exit code
\* returned is i32::MAX, never a small ordinary failure code.
C32_ExitCodeSaturates ==
    ExecRan =>
        LET raw == probe.input.raw
            exit_code == probe.outcome[1].result.exit_code
        IN  IF IsSome(raw) /\ FitsI32(raw[1])
            THEN exit_code = (IF raw[1].high = 0 THEN raw[1].low
                              ELSE raw[1].low - I32_MAX - 1)
            ELSE exit_code = I32_MAX

\* C33: the SCM operations one server process issues are mutually exclusive:
\* at no time are two of them, coming from overlapping tool calls, running
\* against the repository (here two commit_snapshot_from_staging calls, each
\* on the ThreadSafeScm its own tool call opened).
C33_ScmOperationsExclusive ==
    \A v \in Writers, w \in Writers :
        (SnapInProgress(v) /\ SnapInProgress(w)) => v = w

ExtractRan == probe.fn = "extract_tar" /\ IsSome(probe.outcome)

\* The entries src/<p> of the archive, as the paths <p>.
UnderSrc(tar) ==
    { SubSeq(tar[i].parts, 2, Len(tar[i].parts)) :
          i \in { j \in 1..Len(tar) : /\ ~tar[j].absolute
                                      /\ Len(tar[j].parts) >= 1
                                      /\ tar[j].parts[1] = "src" } }

UnderGit(parts) == \E i \in 1..Len(parts) : parts[i] = ".git"

\* C34: download_path extracts the archive so that every entry src/<p> lands
\* at host_dest/<p> (the entry src itself is skipped), and no entry under a
\* .git directory of the container's source tree is written into host_dest.
C34_ExtractUnderHostDest ==
    ExtractRan =>
        /\ \A p \in UnderSrc(probe.input) :
              (p # <<>> /\ ~UnderGit(p)) =>
                  Path(TRUE, HostDest.parts \o p) \in probe.outcome[1]
        /\ \A p \in UnderSrc(probe.input) :
              UnderGit(p) => Path(TRUE, HostDest.parts \o p) \notin probe.outcome[1]
        /\ HostDest \notin probe.outcome[1]

PortsRan == probe.fn = "sandbox-ports" /\ IsSome(probe.outcome) /\ probe.outcome[1].ok

\* C35: applied to the env and the port bindings create gave the container,
\* forwarded_ports_from_inspection returns exactly one mapping per configured
\* port, with the target, host_port and env_var of create's mapping and the
\* slug of the configured name as its name; env entries without the prefix
\* and bindings without a matching env entry give no mapping.
C35_PortsReconstructed ==
    PortsRan =>
        LET forwarded == probe.outcome[1].forwarded
            mappings == probe.outcome[1].mappings
        IN  /\ Cardinality(mappings) = Len(probe.input.config.forwarded_ports)
            /\ mappings = { [name |-> slugify_name(forwarded[i].name).slug,
                             target |-> forwarded[i].target,
                             host_port |-> forwarded[i].host_port,
                             env_var |-> forwarded[i].env_var] :
                                i \in 1..Len(forwarded) }

\* Client c's create call takes a step: it begins, or it goes on.
CreateStep(c) ==
    /\ calls'[c] # calls[c]
    /\ calls'[c].op = "create"

CreateBegins(c) == CreateStep(c) /\ calls'[c].seq # calls[c].seq

\* The branch and the container the running create call has made itself.
OwnBranch(c, n) ==
    /\ ~CreateBegins(c)
    /\ calls[c].branch_created
    /\ n = BranchRef(calls[c].branch_name)

OwnContainer(c, k) ==
    /\ ~CreateBegins(c)
    /\ calls[c].container_created
    /\ k.id = calls[c].container_id

\* C36: a create call never removes or changes a branch or a container that
\* existed before the call: every step of it leaves every ref and every
\* container in place and unchanged, apart from the branch and the container
\* the call made itself.  When litterbox/<slug> exists the call returns
\* SandboxExists at once; when a container with the derived name exists the
\* call returns SandboxExists and the containers are as they were.
C36_FailedCreateKeepsWhatExisted ==
    [][\A c \in Calls : CreateStep(c) =>
         /\ \A n \in DOMAIN refs :
               OwnBranch(c, n) \/ (n \in DOMAIN refs' /\ refs'[n] = refs[n])
         /\ \A k \in containers : OwnContainer(c, k) \/ k \in containers'
         /\ (/\ CreateBegins(c)
             /\ slugify_name(calls'[c].name).ok
             /\ BranchRef(branch_name_for_slug(slugify(calls'[c].name))) \in DOMAIN refs)
            => /\ calls'[c].pc = "done"
               /\ calls'[c].result.err = SandboxExists(slugify(calls'[c].name))
               /\ refs' = refs /\ containers' = containers
         /\ (/\ calls[c].pc = "create_container"
             /\ \E k \in containers :
                   k.name = container_name_for_slug(calls[c].repo_prefix, calls[c].slug))
            => /\ calls'[c].pc = "done"
               /\ calls'[c].result.err = SandboxExists(calls[c].slug)
               /\ containers' = containers]_vars

\* C36 (amended): the same, except that with litterbox/<slug> in place the
\* call returns the SCM error BranchCreate instead of SandboxExists when
\* libgit2 fails to resolve HEAD, which create_branch does before it looks
\* for the branch; no ref and no container changes then either.
C36_FailedCreateKeepsWhatExistedOrHeadFails ==
    [][\A c \in Calls : CreateStep(c) =>
         /\ \A n \in DOMAIN refs :
               OwnBranch(c, n) \/ (n \in DOMAIN refs' /\ refs'[n] = refs[n])
         /\ \A k \in containers : OwnContainer(c, k) \/ k \in containers'
         /\ (/\ CreateBegins(c)
             /\ slugify_name(calls'[c].name).ok
             /\ head_commit_optional # None
             /\ BranchRef(branch_name_for_slug(slugify(calls'[c].name))) \in DOMAIN refs)
            => \/ /\ calls'[c].pc = "done"
                  /\ calls'[c].result.err = SandboxExists(slugify(calls'[c].name))
                  /\ refs' = refs /\ containers' = containers
               \/ /\ calls'[c].pc = "done"
                  /\ calls'[c].failed_step = "create_branch"
                  /\ calls'[c].result.err = ScmError("BranchCreate")
                  /\ refs' = refs /\ containers' = containers
         /\ (/\ calls[c].pc = "create_container"
             /\ \E k \in containers :
                   k.name = container_name_for_slug(calls[c].repo_prefix, calls[c].slug))
            => /\ calls'[c].pc = "done"
               /\ calls'[c].result.err = SandboxExists(calls[c].slug)
               /\ containers' = containers]_vars

\* C36 witness: a create call has returned SandboxExists because a container
\* with the derived name existed; that container is still there, and the
\* branch the call had made is gone again.
C36_Witness ==
    \E c \in Calls :
        /\ calls[c].op = "create" /\ calls[c].pc = "done"
        /\ calls[c].failed_step = "create_container"
        /\ calls[c].result.err = SandboxExists(calls[c].slug)
        /\ \E k \in containers :
              k.name = container_name_for_slug(calls[c].repo_prefix, calls[c].slug)
        /\ BranchRef(calls[c].branch_name) \notin DOMAIN refs

\* Writer w's commit_snapshot_from_staging returns an error after its restore.
SnapFailsAfterRestore(w) ==
    /\ snaps[w].pc = "restore"
    /\ snaps'[w].pc = "done"
    /\ ~snaps'[w].result.ok

\* C37: a commit_snapshot_from_staging call that ends in an error never
\* discards another writer's update of the snapshot ref: when the ref no
\* longer holds what the call captured as its backup, because a different
\* writer has moved it since, it holds the same value after the call.
C37_FailedSnapshotKeepsOthersUpdate ==
    [][\A w \in Writers : SnapFailsAfterRestore(w) =>
         LET ref_name == snapshot_branch_ref(snaps[w].snapshot_branch) IN
         find_reference(refs, ref_name) # snaps[w].backup
            => find_reference(refs', ref_name) = find_reference(refs, ref_name)]_vars

NamesDerived == probe.fn = "container_name" /\ IsSome(probe.outcome)

\* C38: every entry point derives the same container name for the same
\* sandbox name in the same repository and configuration: the name of the
\* MCP sandbox-create and of the MCP file tools is the name of the CLI
\* pause, resume, delete and shell, also when project.slug is set.
C38_SameContainerName ==
    NamesDerived =>
        /\ probe.outcome[1].sandbox_create = probe.outcome[1].tools
        /\ probe.outcome[1].tools = probe.outcome[1].cli

SnapshotTargetsDerived == probe.fn = "snapshot_target" /\ IsSome(probe.outcome)

\* C39: the snapshot ref a mutating tool call writes depends only on the
\* slug of its sandbox argument: two arguments with the same slug reach the
\* same container and the same snapshot ref, and the ref is the sandbox's
\* branch built from the slug.
C39_SnapshotRefFromSlug ==
    SnapshotTargetsDerived =>
        /\ slugify(probe.input[1]) = slugify(probe.input[2]) =>
               /\ probe.outcome[1][1].container_id = probe.outcome[1][2].container_id
               /\ probe.outcome[1][1].snapshot_ref = probe.outcome[1][2].snapshot_ref
        /\ \A i \in 1..2 :
               probe.outcome[1][i].snapshot_ref =
                   <<"refs/heads/">> \o branch_name_for_slug(slugify(probe.input[i]))

\* C40: for every pair of u16 values start <= end, the full range 0..65535
\* included, allocate_host_port finishes without an arithmetic panic, the
\* range size it computes is end - start + 1, and every candidate it probes
\* lies in start..end.
C40_RangeArithmetic ==
    (probe.fn = "allocate_host_port" /\ IsSome(probe.outcome)
        /\ probe.input.range_start <= probe.input.range_end) =>
        LET start == probe.input.range_start
            end == probe.input.range_end
            result == probe.outcome[1].result
        IN  /\ ~probe.outcome[1].panicked
            /\ port_range_size(start, end) = end - start + 1
            /\ \A i \in 1..Len(result.probed) : result.probed[i] \in start..end

====
